---- MODULE Spec2Model ----
(***************************************************************************)
(* A model of openml-python's flow layer: the scikit-learn extension's     *)
(* model <-> flow walker (extension.py) and the OpenMLFlow entity          *)
(* (flow.py).                                                              *)
(*                                                                         *)
(* Python values are records tagged by t:                                  *)
(*   none | bool(b) | int(i) | str(v) | jsonstr(doc) | list(xs) |          *)
(*   tuple(xs) | dict(kv) | odict(kv) | est(cls,args) | flow(...) |        *)
(*   error(v)                                                              *)
(* A str is a text that is kept as written; a jsonstr is the text that     *)
(* json.dumps produced for the array, object or string `doc`.  An error    *)
(* value stands for the exception a call raised instead of returning.      *)
(***************************************************************************)
EXTENDS Integers, Sequences, FiniteSets, TLC

\* Longest list, tuple or step list drawn as an input.
MaxLen == 2

----------------------------------------------------------------------------
\* Python values

PyNone == [t |-> "none"]
PyBool(b) == [t |-> "bool", b |-> b]
PyInt(i) == [t |-> "int", i |-> i]
PyStr(s) == [t |-> "str", v |-> s]
PyList(xs) == [t |-> "list", xs |-> xs]
PyTuple(xs) == [t |-> "tuple", xs |-> xs]
PyDict(kv) == [t |-> "dict", kv |-> kv]
OrderedDict(kv) == [t |-> "odict", kv |-> kv]
Item(k, val) == [k |-> k, val |-> val]
Estimator(cls, args) == [t |-> "est", cls |-> cls, args |-> args]
Raise(kind) == [t |-> "error", v |-> kind]

IsErr(x) == x.t = "error"
IsSeqVal(x) == x.t \in {"list", "tuple"}
IsMapping(x) == x.t \in {"dict", "odict"}
IsString(x) == x.t \in {"str", "jsonstr"}
\* SIMPLE_TYPES: bool, int, float, str (and the numpy scalars); None is not one.
IsSimple(x) == x.t \in {"bool", "int", "str", "jsonstr"}

\* The first exception raised while evaluating xs left to right, if any.
FirstErr(xs) ==
  IF \E i \in 1..Len(xs) : IsErr(xs[i])
  THEN xs[CHOOSE i \in 1..Len(xs) : IsErr(xs[i]) /\ \A j \in 1..(i - 1) : ~IsErr(xs[j])]
  ELSE PyNone

\* Lookup in a mapping's items; keys are compared as Python compares them.
HasKey(kv, k) == \E i \in 1..Len(kv) : kv[i].k = k
Get(kv, k) == kv[CHOOSE i \in 1..Len(kv) : kv[i].k = k].val
\* d[k] = val on an insertion-ordered mapping.
Put(kv, k, val) ==
  IF HasKey(kv, k)
  THEN [i \in 1..Len(kv) |-> IF kv[i].k = k THEN Item(k, val) ELSE kv[i]]
  ELSE Append(kv, Item(k, val))
\* del d[k]
Del(kv, k) ==
  LET keep == {i \in 1..Len(kv) : kv[i].k # k}
      nth(p) == CHOOSE i \in keep : Cardinality({j \in keep : j < i}) = p - 1
  IN [p \in 1..Cardinality(keep) |-> kv[nth(p)]]
Keys(kv) == {kv[i].k : i \in 1..Len(kv)}

\* The strings the model sorts, in Python's (code point) order.
KeyOrder ==
  << "1", "a", "argument_1", "b", "base_estimator", "estimators", "k", "key",
     "oml-python:serialized_object", "p", "step_name", "value" >>
KeyRank(s) == CHOOSE i \in 1..Len(KeyOrder) : KeyOrder[i] = s
\* sorted(o.items()) for a mapping with string keys.
SortedItems(kv) ==
  LET n == Len(kv)
      pos(i) == 1 + Cardinality({j \in 1..n : KeyRank(kv[j].k.v) < KeyRank(kv[i].k.v)})
  IN [p \in 1..n |-> kv[CHOOSE i \in 1..n : pos(i) = p]]

----------------------------------------------------------------------------
\* json.dumps / json.loads

\* The JSON document json.dumps writes for x: a tuple becomes an array, any
\* mapping an object in iteration order; a flow or estimator is a TypeError.
RECURSIVE ToJson(_)
ToJson(x) ==
  CASE x.t \in {"none", "bool", "int", "str", "jsonstr"} -> x
    [] IsSeqVal(x) ->
         LET ys == [i \in 1..Len(x.xs) |-> ToJson(x.xs[i])]
         IN IF IsErr(FirstErr(ys)) THEN FirstErr(ys) ELSE PyList(ys)
    [] IsMapping(x) ->
         LET ys == [i \in 1..Len(x.kv) |-> ToJson(x.kv[i].val)]
         IN IF IsErr(FirstErr(ys)) THEN FirstErr(ys)
            ELSE PyDict([i \in 1..Len(x.kv) |-> Item(x.kv[i].k, ys[i])])
    [] OTHER -> Raise("TypeError")

\* json.dumps(x): the text of x's document.  The text of null, of a boolean
\* and of a number is a plain text (null, true, 1); every other text is kept
\* with the document it spells.
json_dumps(x) ==
  LET d == ToJson(x)
  IN CASE IsErr(d) -> d
       [] d.t = "none" -> PyStr("null")
       [] d.t = "bool" -> PyStr(IF d.b THEN "true" ELSE "false")
       [] d.t = "int" -> PyStr(ToString(d.i))
       [] OTHER -> [t |-> "jsonstr", doc |-> d]

\* json.loads(s): the document a text spells, or JSONDecodeError.
json_loads(s) ==
  CASE s.t = "jsonstr" -> s.doc
    [] s.v = "null" -> PyNone
    [] s.v = "true" -> PyBool(TRUE)
    [] s.v = "false" -> PyBool(FALSE)
    [] \E n \in 0..9 : ToString(n) = s.v ->
         PyInt(CHOOSE n \in 0..9 : ToString(n) = s.v)
    [] OTHER -> Raise("JSONDecodeError")

----------------------------------------------------------------------------
\* The estimator classes the walker introspects

ClassNames ==
  {"sklearn.tree.DT", "sklearn.nb.NB", "sklearn.ensemble.Ada", "sklearn.ensemble.Vote",
   "xgboost.XGB"}
\* The constructor's parameters: get_params(deep=False) in sorted order.
InitArgs(cls) ==
  CASE cls = "sklearn.tree.DT" -> << "p" >>
    [] cls = "sklearn.ensemble.Ada" -> << "base_estimator" >>
    [] cls = "sklearn.ensemble.Vote" -> << "estimators" >>
    [] cls = "sklearn.ensemble.RF" -> << "n_jobs" >>
    [] cls = "sklearn.linear_model.SGD" -> << "random_state" >>
    [] cls = "sklearn.ensemble.Bagging" -> << "base_estimator", "random_state" >>
    [] cls = "sklearn.feature_selection.RFECV" -> << "cv", "estimator" >>
    [] cls = "sklearn.pipeline.Pipeline" -> << "steps" >>
    [] cls = "sklearn.model_selection.GridSearchCV" ->
         << "estimator", "n_jobs", "param_grid" >>
    [] cls = "sklearn.model_selection.RandomizedSearchCV" ->
         << "estimator", "n_jobs", "param_distributions" >>
    [] OTHER -> << >>
\* The parameters that have a default, with the default.
_get_fn_arguments_with_defaults(cls) ==
  CASE cls = "sklearn.tree.DT" -> << Item("p", PyNone) >>
    [] cls = "sklearn.ensemble.Ada" -> << Item("base_estimator", PyNone) >>
    [] OTHER -> << >>
\* model.__module__.split('.')[0] and that package's __version__
PackageEntry(cls) ==
  IF cls = "xgboost.XGB" THEN [pkg |-> "xgboost", ver |-> "0.90"]
  ELSE [pkg |-> "sklearn", ver |-> "0.21.2"]
OpenmlEntry == [pkg |-> "openml", ver |-> "0.10.0"]
\* The package names in sorted order.
PkgOrder == << "openml", "sklearn", "xgboost" >>
PkgRank(e) == CHOOSE i \in 1..Len(PkgOrder) : PkgOrder[i] = e.pkg

----------------------------------------------------------------------------
\* OpenMLFlow

\* OpenMLFlow.__init__ with the check of the keys in one direction only.
OpenMLFlow_one_direction(name, class_name, components, parameters, parameters_meta_info, external_version, tags, flow_id) ==
  IF Keys(parameters) \ Keys(parameters_meta_info) # {} THEN Raise("ValueError")
  ELSE [t |-> "flow", name |-> name, class_name |-> class_name, components |-> components,
        parameters |-> parameters, parameters_meta_info |-> parameters_meta_info,
        external_version |-> external_version, tags |-> tags, flow_id |-> flow_id,
        uploader |-> PyNone, version |-> PyNone, upload_date |-> PyNone]

\* OpenMLFlow.__init__: the flow, or ValueError when the keys of parameters
\* and parameters_meta_info differ.
OpenMLFlow(name, class_name, components, parameters, parameters_meta_info, external_version, tags, flow_id) ==
  IF Keys(parameters) \ Keys(parameters_meta_info) # {} THEN Raise("ValueError")
  ELSE IF Keys(parameters_meta_info) \ Keys(parameters) # {} THEN Raise("ValueError")
  ELSE [t |-> "flow", name |-> name, class_name |-> class_name,
        components |-> components, parameters |-> parameters,
        parameters_meta_info |-> parameters_meta_info,
        external_version |-> external_version, tags |-> tags, flow_id |-> flow_id,
        uploader |-> PyNone, version |-> PyNone, upload_date |-> PyNone]

\* external_version.startswith('sklearn==') or ',sklearn==' in external_version
_is_sklearn_flow(flow) ==
  \E i \in 1..Len(flow.external_version) : flow.external_version[i].pkg = "sklearn"

----------------------------------------------------------------------------
\* model -> flow

RECURSIVE _serialize_sklearn(_), ExtractLoop(_, _, _), StepLoop(_, _, _, _)
RECURSIVE _deserialize_sklearn(_, _, _), DeserializeAll(_, _, _, _), _deserialize_model(_, _)

\* flatten_all(rval) holds simple types only.
RECURSIVE AllSimple(_)
AllSimple(x) ==
  \A i \in 1..Len(x.xs) :
    IF IsSeqVal(x.xs[i]) THEN AllSimple(x.xs[i]) ELSE IsSimple(x.xs[i])

is_non_empty_list_of_lists_with_same_type(rval) ==
  /\ IsSeqVal(rval)
  /\ Len(rval.xs) > 0
  /\ IsSeqVal(rval.xs[1])
  /\ \A i \in 1..Len(rval.xs) : rval.xs[i].t = rval.xs[1].t

\* The placeholder stored where a component is used.
ComponentReference(key, step_name, extra) ==
  OrderedDict(<< Item(PyStr("oml-python:serialized_object"), PyStr("component_reference")),
                 Item(PyStr("value"),
                      OrderedDict(<< Item(PyStr("key"), key),
                                     Item(PyStr("step_name"), step_name) >> \o extra)) >>)

\* One tuple of a step list: acc holds parameter_value, sub_components and
\* sub_components_explicit.
StepOne(kind, tup, reserved, acc) ==
  CASE Len(tup) < 2 -> Raise("IndexError")
    [] Len(tup) > 3 -> Raise("ValueError")
    [] tup[2].t \notin {"flow", "none"} -> Raise("TypeError")
    [] tup[1].t = "str" /\ tup[1].v \in reserved -> Raise("PyOpenMLError")
    [] tup[2].t = "none" ->
         [acc EXCEPT !.pv = Append(@, [t |-> kind, xs |-> << tup[1], PyNone >>])]
    [] OTHER ->
         [t |-> "steps",
          pv |-> Append(acc.pv,
                        ComponentReference(tup[1], tup[1],
                                           IF Len(tup) = 3
                                           THEN << Item(PyStr("argument_1"), tup[3]) >>
                                           ELSE << >>)),
          sub |-> Put(acc.sub, tup[1], tup[2]),
          explicit |-> acc.explicit \cup {tup[1]}]

\* The loop over the tuples of a step list.
StepLoop(rval, reserved, i, acc) ==
  IF IsErr(acc) \/ i > Len(rval.xs) THEN acc
  ELSE StepLoop(rval, reserved, i + 1, StepOne(rval.xs[i].t, rval.xs[i].xs, reserved, acc))

\* The entry of parameter k, whose stored text is js, joins the parameters.
Stored(info, k, meta, js) ==
  IF IsErr(js) THEN js
  ELSE [info EXCEPT !.parameters = Put(@, PyStr(k), js), !.parameters_meta_info = meta]

\* The parameter and components a finished step list leaves behind.
StepResult(k, kind, acc, meta, r) ==
  IF IsErr(r) THEN r
  ELSE Stored([acc EXCEPT !.sub_components = r.sub, !.sub_components_explicit = r.explicit],
              k, meta, json_dumps([t |-> kind, xs |-> r.pv]))

\* One round of _extract_information_from_model's loop: parameter k, whose
\* serialized value is rval.
ExtractOne(model, k, acc, rval) ==
  LET meta == Put(acc.parameters_meta_info, PyStr(k),
                  OrderedDict(<< Item(PyStr("description"), PyNone),
                                 Item(PyStr("data_type"), PyNone) >>))
  IN CASE IsErr(rval) -> rval
       [] is_non_empty_list_of_lists_with_same_type(rval) /\ ~AllSimple(rval) ->
            StepResult(k, rval.t, acc, meta,
                       StepLoop(rval, {InitArgs(model.cls)[j] : j \in 1..Len(InitArgs(model.cls))},
                                1, [t |-> "steps", pv |-> << >>, sub |-> acc.sub_components,
                                    explicit |-> acc.sub_components_explicit]))
       [] rval.t = "flow" ->
            Stored([acc EXCEPT !.sub_components = Put(@, PyStr(k), rval),
                               !.sub_components_explicit = @ \cup {PyStr(k)}],
                   k, meta,
                   json_dumps(_serialize_sklearn(ComponentReference(PyStr(k), PyNone, << >>))))
       [] (IsSeqVal(rval) /\ Len(rval.xs) = 0) \/ (IsMapping(rval) /\ Len(rval.kv) = 0)
          \/ (rval.t = "str" /\ rval.v = "") ->
            Stored(acc, k, meta, PyNone)
       [] OTHER -> Stored(acc, k, meta, json_dumps(rval))

\* _extract_information_from_model: the loop over the sorted parameters.
ExtractLoop(model, i, acc) ==
  IF IsErr(acc) \/ i > Len(InitArgs(model.cls)) THEN acc
  ELSE ExtractLoop(model, i + 1,
                   ExtractOne(model, InitArgs(model.cls)[i], acc,
                              _serialize_sklearn(model.args[InitArgs(model.cls)[i]])))

_extract_information_from_model(model) ==
  ExtractLoop(model, 1, [t |-> "info", parameters |-> << >>, parameters_meta_info |-> << >>,
                         sub_components |-> << >>, sub_components_explicit |-> {}])

\* The names met when walking the components below a flow, one per visit.
RECURSIVE VisitedNames(_)
VisitedNames(components) ==
  IF Len(components) = 0 THEN << >>
  ELSE << components[1].val.name >> \o VisitedNames(components[1].val.components)
       \o VisitedNames(Tail(components))

\* The duplicate check looking at the direct sub-components only.
_check_direct_components_only(sub_components) ==
  \E i, j \in 1..Len(sub_components) :
    i # j /\ sub_components[i].val.name = sub_components[j].val.name

\* True when the walk meets a name a second time (the ValueError).
_check_multiple_occurence_of_component_in_flow(sub_components) ==
  \E i, j \in 1..Len(VisitedNames(sub_components)) :
    i # j /\ VisitedNames(sub_components)[i] = VisitedNames(sub_components)[j]

\* The external version without the entries of the components.
_get_external_version_string_own(model, sub_components) ==
  << OpenmlEntry, PackageEntry(model.cls) >>

\* The sorted union of the model's, this library's and the components' entries.
_get_external_version_string(model, sub_components) ==
  LET entries == {PackageEntry(model.cls), OpenmlEntry}
                 \cup UNION {{sub_components[i].val.external_version[j] :
                                j \in 1..Len(sub_components[i].val.external_version)} :
                             i \in 1..Len(sub_components)}
      pos(e) == 1 + Cardinality({f \in entries : PkgRank(f) < PkgRank(e)})
  IN [p \in 1..Cardinality(entries) |-> CHOOSE e \in entries : pos(e) = p]

\* The comma-joined names of the sub-components, explicit ones as key=name.
RECURSIVE SubComponentNames(_, _)
SubComponentNames(sub, explicit) ==
  LET first == IF sub[1].k \in explicit
               THEN sub[1].k.v \o "=" \o sub[1].val.name
               ELSE sub[1].val.name
  IN IF Len(sub) = 1 THEN first
     ELSE first \o "," \o SubComponentNames(Tail(sub), explicit)

FlowName(class_name, sub, explicit) ==
  IF Len(sub) = 0 THEN class_name
  ELSE class_name \o "(" \o SubComponentNames(sub, explicit) \o ")"

\* The tags _serialize_model gives every flow.
SklearnTags ==
  << PyStr("openml-python"), PyStr("sklearn"), PyStr("scikit-learn"), PyStr("python"),
     PyStr("sklearn_0.21.2") >>

\* _serialize_model after its call of _extract_information_from_model.
FlowFromInformation(model, info) ==
  CASE IsErr(info) -> info
    [] _check_multiple_occurence_of_component_in_flow(info.sub_components) ->
         Raise("ValueError")
    [] \E i \in 1..Len(info.sub_components) : info.sub_components[i].k.t # "str" ->
         Raise("TypeError")
    [] OTHER ->
         OpenMLFlow(FlowName(model.cls, info.sub_components, info.sub_components_explicit),
                    model.cls, info.sub_components, info.parameters,
                    info.parameters_meta_info,
                    _get_external_version_string(model, info.sub_components),
                    SklearnTags, PyNone)

_serialize_model(model) == FlowFromInformation(model, _extract_information_from_model(model))

\* The container a list of serialized members becomes.
Collected(kind, keys, ys) ==
  CASE IsErr(FirstErr(ys)) -> FirstErr(ys)
    [] kind = "odict" -> OrderedDict([i \in 1..Len(ys) |-> Item(keys[i], ys[i])])
    [] OTHER -> [t |-> kind, xs |-> ys]

\* The items of a mapping in the order _serialize_sklearn visits them.
VisitOrder(o) == IF o.t = "odict" THEN o.kv ELSE SortedItems(o.kv)

_serialize_sklearn(o) ==
  CASE o.t = "est" -> _serialize_model(o)
    [] IsSeqVal(o) ->
         Collected(o.t, << >>, [i \in 1..Len(o.xs) |-> _serialize_sklearn(o.xs[i])])
    [] IsSimple(o) \/ o.t = "none" -> o
    [] IsMapping(o) ->
         IF \E i \in 1..Len(o.kv) : ~IsString(o.kv[i].k) THEN Raise("TypeError")
         ELSE Collected("odict", [i \in 1..Len(o.kv) |-> VisitOrder(o)[i].k],
                        [i \in 1..Len(o.kv) |-> _serialize_sklearn(VisitOrder(o)[i].val)])
    [] OTHER -> Raise("TypeError")

model_to_flow(model) == _serialize_sklearn(model)

----------------------------------------------------------------------------
\* flow -> model

\* A decoded value together with the working copy of the components.
Ok(val, components) == [t |-> "ok", val |-> val, components |-> components]

\* One more decoded member h behind the members of acc.
Collect(acc, h) ==
  IF IsErr(h) THEN h ELSE Ok(Append(acc.val, h.val), h.components)

\* Decoding xs left to right with the one working copy of the components.
DeserializeAll(xs, i, acc, initialize_with_defaults) ==
  IF IsErr(acc) \/ i > Len(xs) THEN acc
  ELSE DeserializeAll(xs, i + 1,
                      Collect(acc, _deserialize_sklearn(xs[i], acc.components,
                                                        initialize_with_defaults)),
                      initialize_with_defaults)

\* What a resolved component reference becomes.
ReferenceValue(value, component) ==
  CASE Get(value.kv, PyStr("step_name")) = PyNone -> component
    [] ~HasKey(value.kv, PyStr("argument_1")) ->
         PyTuple(<< Get(value.kv, PyStr("step_name")), component >>)
    [] OTHER ->
         PyTuple(<< Get(value.kv, PyStr("step_name")), component,
                    Get(value.kv, PyStr("argument_1")) >>)

\* The component a reference names, popped from the working copy.
PopComponent(value, components, component) ==
  IF IsErr(component) THEN component
  ELSE Ok(ReferenceValue(value, component.val),
          [components EXCEPT !.kv = Del(components.kv, Get(value.kv, PyStr("key")))])

\* The component_reference branch handing the envelope on unresolved.
ResolveReference_unresolved(v, components, initialize_with_defaults) ==
  IF IsErr(v) THEN v
  ELSE Ok(OrderedDict(<< Item(PyStr("oml-python:serialized_object"),
                              PyStr("component_reference")),
                         Item(PyStr("value"), v.val) >>), components)

\* The component_reference branch once its value v is decoded.
ResolveReference(v, components, initialize_with_defaults) ==
  CASE IsErr(v) -> v
    [] ~IsMapping(v.val) -> Raise("TypeError")
    [] ~HasKey(v.val.kv, PyStr("step_name")) \/ ~HasKey(v.val.kv, PyStr("key")) ->
         Raise("KeyError")
    [] ~HasKey(components.kv, Get(v.val.kv, PyStr("key"))) -> Raise("KeyError")
    [] OTHER ->
         PopComponent(v.val, components,
                      _deserialize_sklearn(Get(components.kv, Get(v.val.kv, PyStr("key"))),
                                           PyNone, initialize_with_defaults))

\* The container decoded members become.
Decoded(kind, r) ==
  CASE IsErr(r) -> r
    [] kind = "odict" ->
         Ok(OrderedDict([i \in 1..(Len(r.val) \div 2) |->
                           Item(r.val[2 * i - 1], r.val[2 * i])]), r.components)
    [] OTHER -> Ok([t |-> kind, xs |-> r.val], r.components)

\* The keys and values of a mapping, in sorted key order.
KeysAndValues(kv) ==
  [i \in 1..(2 * Len(kv)) |->
     IF i % 2 = 1 THEN SortedItems(kv)[(i + 1) \div 2].k ELSE SortedItems(kv)[i \div 2].val]

\* A component no parameter has used, decoded to rval, joins the keywords.
Unreferenced(parameter_dict, name, rval) ==
  IF IsErr(rval) THEN rval
  ELSE [t |-> "kwargs", kv |-> Put(parameter_dict.kv, name, rval.val)]

\* The second loop of _deserialize_model: the components no parameter used.
RECURSIVE RemainingComponents(_, _, _, _)
RemainingComponents(components, components_, i, parameter_dict) ==
  CASE IsErr(parameter_dict) \/ i > Len(components) -> parameter_dict
    [] HasKey(parameter_dict.kv, components[i].k) \/ ~HasKey(components_, components[i].k) ->
         RemainingComponents(components, components_, i + 1, parameter_dict)
    [] OTHER ->
         RemainingComponents(components, components_, i + 1,
                             Unreferenced(parameter_dict, components[i].k,
                                          _deserialize_sklearn(components[i].val, PyNone, FALSE)))

\* The defaults loop of _deserialize_model: del parameter_dict[param] for
\* every defaulted parameter that is no component key.
RECURSIVE DropDefaults(_, _, _, _)
DropDefaults(param_defaults, components, i, parameter_dict) ==
  CASE i > Len(param_defaults) -> [t |-> "kwargs", kv |-> parameter_dict]
    [] HasKey(components, PyStr(param_defaults[i].k)) ->
         DropDefaults(param_defaults, components, i + 1, parameter_dict)
    [] ~HasKey(parameter_dict, PyStr(param_defaults[i].k)) -> Raise("KeyError")
    [] OTHER ->
         DropDefaults(param_defaults, components, i + 1,
                      Del(parameter_dict, PyStr(param_defaults[i].k)))

\* The keywords after the first loop of _deserialize_model, which decoded
\* the parameter values to decoded.
FromParameters(flow, decoded) ==
  IF IsErr(decoded) THEN decoded
  ELSE RemainingComponents(flow.components, decoded.components.kv, 1,
                           [t |-> "kwargs",
                            kv |-> [i \in 1..Len(flow.parameters) |->
                                      Item(flow.parameters[i].k, decoded.val[i])]])

\* The import of the class and the defaults loop.
ForClass(flow, keep_defaults, all) ==
  CASE IsErr(all) -> all
    [] flow.class_name \notin ClassNames -> Raise("ImportError")
    [] keep_defaults ->
         DropDefaults(_get_fn_arguments_with_defaults(flow.class_name),
                      flow.components, 1, all.kv)
    [] OTHER -> all

\* components_ = components: the working dictionary is the dictionary of
\* the flow itself.
copy_copy_same_object(components) ==
  [t |-> "dict", kv |-> components, object |-> "components"]

\* components_ = copy.copy(components): a dictionary of its own, with the
\* items of flow.components.
copy_copy(components) == [t |-> "dict", kv |-> components, object |-> "components_"]

\* The first loop of _deserialize_model: the parameter values decoded with
\* the working copy components_.
DecodedParameters(flow, keep_defaults) ==
  DeserializeAll([i \in 1..Len(flow.parameters) |-> flow.parameters[i].val],
                 1, Ok(<< >>, copy_copy(flow.components)), keep_defaults)

\* The keyword dictionary _deserialize_model hands to the class constructor.
ConstructorKeywords(flow, keep_defaults) ==
  ForClass(flow, keep_defaults, FromParameters(flow, DecodedParameters(flow, keep_defaults)))

\* model_class(**parameter_dict)
Construct(cls, parameter_dict) ==
  CASE IsErr(parameter_dict) -> parameter_dict
    [] \E k \in Keys(parameter_dict.kv) :
         k.t # "str" \/ k.v \notin {InitArgs(cls)[i] : i \in 1..Len(InitArgs(cls))} ->
         Raise("TypeError")
    [] \E i \in 1..Len(InitArgs(cls)) :
         /\ ~HasKey(parameter_dict.kv, PyStr(InitArgs(cls)[i]))
         /\ ~HasKey(_get_fn_arguments_with_defaults(cls), InitArgs(cls)[i]) ->
         Raise("TypeError")
    [] OTHER ->
         Estimator(cls, [n \in {InitArgs(cls)[i] : i \in 1..Len(InitArgs(cls))} |->
                           IF HasKey(parameter_dict.kv, PyStr(n))
                           THEN Get(parameter_dict.kv, PyStr(n))
                           ELSE Get(_get_fn_arguments_with_defaults(cls), n)])

_deserialize_model(flow, keep_defaults) ==
  Construct(flow.class_name, ConstructorKeywords(flow, keep_defaults))

\* The estimator a flow decodes to, with the components left untouched.
Model(m, components) == IF IsErr(m) THEN m ELSE Ok(m, components)

\* _deserialize_sklearn once a string that holds JSON is parsed.
DeserializeParsed(o, components, initialize_with_defaults) ==
  CASE IsMapping(o) /\ ~HasKey(o.kv, PyStr("oml-python:serialized_object")) ->
         Decoded("odict", DeserializeAll(KeysAndValues(o.kv), 1, Ok(<< >>, components),
                                         initialize_with_defaults))
    [] IsMapping(o) /\ ~HasKey(o.kv, PyStr("value")) -> Raise("KeyError")
    [] IsMapping(o) /\ Get(o.kv, PyStr("oml-python:serialized_object"))
                         \in {PyStr("type"), PyStr("rv_frozen"), PyStr("function"),
                              PyStr("cv_object")} ->
         Ok([t |-> "special", tag |-> Get(o.kv, PyStr("oml-python:serialized_object")).v,
             value |-> Get(o.kv, PyStr("value"))], components)
    [] IsMapping(o) /\ Get(o.kv, PyStr("oml-python:serialized_object"))
                         = PyStr("component_reference") ->
         IF components = PyNone THEN Raise("AssertionError")
         ELSE ResolveReference(_deserialize_sklearn(Get(o.kv, PyStr("value")), PyNone, FALSE),
                               components, initialize_with_defaults)
    [] IsMapping(o) -> Raise("ValueError")
    [] IsSeqVal(o) ->
         Decoded(o.t, DeserializeAll(o.xs, 1, Ok(<< >>, components), initialize_with_defaults))
    [] o.t \in {"bool", "int", "str", "jsonstr", "none"} -> Ok(o, components)
    [] o.t = "flow" /\ ~_is_sklearn_flow(o) -> Raise("ValueError")
    [] o.t = "flow" -> Model(_deserialize_model(o, initialize_with_defaults), components)
    [] OTHER -> Raise("TypeError")

\* A string is parsed as JSON where it is JSON, and kept where it is not.
Parsed(o) == IF IsString(o) /\ ~IsErr(json_loads(o)) THEN json_loads(o) ELSE o

_deserialize_sklearn(o, components, initialize_with_defaults) ==
  DeserializeParsed(Parsed(o), components, initialize_with_defaults)

\* The value inside the result of _deserialize_sklearn.
Returned(r) == IF IsErr(r) THEN r ELSE r.val

flow_to_model(flow, initialize_with_defaults) ==
  Returned(_deserialize_sklearn(flow, PyNone, initialize_with_defaults))

\* flow.components once the first loop of _deserialize_model has deleted
\* the referenced components from the working dictionary: the items of the
\* working dictionary where it is the dictionary of the flow, and the items
\* the flow had where it is a copy.
ComponentsLeft(flow, decoded) ==
  IF ~IsErr(decoded) /\ decoded.components.object = "components"
  THEN decoded.components.kv
  ELSE flow.components

\* The flow object after flow_to_model: every flow below it is decoded by
\* a _deserialize_model call of its own, with a working dictionary of its
\* own.
RECURSIVE FlowAfter(_, _)
FlowAfter(flow, initialize_with_defaults) ==
  [flow EXCEPT !.components =
     [i \in 1..Len(ComponentsLeft(flow, DecodedParameters(flow, initialize_with_defaults))) |->
        Item(ComponentsLeft(flow, DecodedParameters(flow, initialize_with_defaults))[i].k,
             FlowAfter(ComponentsLeft(flow, DecodedParameters(flow, initialize_with_defaults))[i].val,
                       initialize_with_defaults))]]

----------------------------------------------------------------------------
\* Structural equality and the inputs

\* a == b as Python decides it for the values of the model: a dict equals a
\* mapping with the same items in any order, two OrderedDicts are equal in
\* the same order only, True == 1, and a list never equals a tuple.
RECURSIVE PyEq(_, _)
PyEq(a, b) ==
  CASE a.t \in {"bool", "int"} /\ b.t \in {"bool", "int"} ->
         (IF a.t = "int" THEN a.i ELSE IF a.b THEN 1 ELSE 0)
         = (IF b.t = "int" THEN b.i ELSE IF b.b THEN 1 ELSE 0)
    [] IsSeqVal(a) /\ a.t = b.t ->
         Len(a.xs) = Len(b.xs) /\ \A i \in 1..Len(a.xs) : PyEq(a.xs[i], b.xs[i])
    [] a.t = "odict" /\ b.t = "odict" ->
         /\ Len(a.kv) = Len(b.kv)
         /\ \A i \in 1..Len(a.kv) : a.kv[i].k = b.kv[i].k /\ PyEq(a.kv[i].val, b.kv[i].val)
    [] IsMapping(a) /\ IsMapping(b) ->
         /\ Keys(a.kv) = Keys(b.kv)
         /\ \A k \in Keys(a.kv) : PyEq(Get(a.kv, k), Get(b.kv, k))
    [] a.t = "est" /\ b.t = "est" ->
         /\ a.cls = b.cls
         /\ DOMAIN a.args = DOMAIN b.args
         /\ \A n \in DOMAIN a.args : PyEq(a.args[n], b.args[n])
    [] OTHER -> a = b

Seqs(S, n) == UNION {[1..k -> S] : k \in 0..n}

DT(v) == Estimator("sklearn.tree.DT", [n \in {"p"} |-> v])
NB == Estimator("sklearn.nb.NB", << >>)
XGB == Estimator("xgboost.XGB", << >>)
Ada(e) == Estimator("sklearn.ensemble.Ada", [n \in {"base_estimator"} |-> e])
Vote(steps) == Estimator("sklearn.ensemble.Vote", [n \in {"estimators"} |-> steps])

Atoms == {PyNone, PyBool(TRUE), PyInt(1), PyStr("a"), PyStr("1")}
FlatValues == {[t |-> k, xs |-> xs] : k \in {"list", "tuple"}, xs \in Seqs(Atoms, MaxLen)}
NestedElements ==
  {PyInt(1), PyNone, PyList(<< >>), PyList(<< PyInt(1) >>), PyTuple(<< PyStr("1") >>),
   PyList(<< PyInt(1), PyNone >>)}
NestedValues ==
  {[t |-> k, xs |-> xs] : k \in {"list", "tuple"}, xs \in Seqs(NestedElements, MaxLen)}
MappingValues ==
  LET vals == {PyInt(1), PyStr("1"), PyTuple(<< PyInt(1) >>)}
      keys == {PyStr("k"), PyStr("1")}
      items == {<< >>} \cup {<< Item(k, v) >> : k \in keys, v \in vals}
               \cup {<< Item(k1, v1), Item(CHOOSE k2 \in keys : k2 # k1, v2) >> :
                       k1 \in keys, v1 \in vals, v2 \in vals}
  IN {[t |-> k, kv |-> kv] : k \in {"dict", "odict"}, kv \in items}
     \cup {OrderedDict(<< Item(PyStr("k"), PyInt(1)), Item(PyStr("a"), PyInt(1)) >>)}
ParameterValues == Atoms \cup FlatValues \cup NestedValues \cup MappingValues

\* The (identifier, estimator) and (identifier, estimator, columns) steps.
Steps(E) ==
  {PyTuple(<< PyStr(i), e >>) : i \in {"a", "b"}, e \in E}
  \cup {PyTuple(<< PyStr(i), NB, PyInt(1) >>) : i \in {"a", "b"}}
StepLists(E, kinds) ==
  {[t |-> k, xs |-> xs] : k \in kinds, xs \in Seqs(Steps(E), MaxLen)}
Models ==
  {DT(v) : v \in ParameterValues} \cup {NB}
  \cup {Ada(e) : e \in {PyNone, DT(PyNone), NB, Ada(DT(PyNone)),
                        Vote(PyList(<< PyTuple(<< PyStr("a"), DT(PyNone) >>) >>))}}
  \cup {Vote(st) : st \in StepLists({PyNone, DT(PyNone), NB}, {"list", "tuple"})}
  \cup {Vote(st) : st \in StepLists({DT(PyNone), Ada(DT(PyNone)), Ada(NB),
                                     Vote(PyList(<< PyTuple(<< PyStr("a"), NB >>) >>))},
                                    {"list"})}
  \cup {Vote(PyList(<< PyTuple(<< PyStr("1"), DT(PyNone) >>) >>)),
        Vote(PyList(<< PyTuple(<< PyStr("estimators"), NB >>) >>)),
        DT(PyList(<< NB >>))}
  \cup {XGB, Ada(XGB), Ada(Ada(XGB)),
        Vote(PyList(<< PyTuple(<< PyStr("a"), XGB >>), PyTuple(<< PyStr("b"), NB >>) >>))}

\* The flows OpenMLFlow is constructed with directly (a document of the
\* server, a flow written by hand): any parameter and meta names.
MetaInfo == OrderedDict(<< Item(PyStr("description"), PyNone), Item(PyStr("data_type"), PyNone) >>)
ExternalVersions == << OpenmlEntry, [pkg |-> "sklearn", ver |-> "0.21.2"] >>
NamedItems(names, val) ==
  LET n == Cardinality(names)
      nth(p) == CHOOSE x \in names : Cardinality({y \in names : KeyRank(y) < KeyRank(x)}) = p - 1
  IN [p \in 1..n |-> Item(PyStr(nth(p)), val)]

----------------------------------------------------------------------------
\* The state

VARIABLES
  model,   \* the estimator handed to model_to_flow (PyNone: none)
  flow,    \* the flow object at hand, or the exception its construction raised
  op,      \* the operation that ran last
  given,   \* what that operation was called with, and what it passed on
  result,  \* what that operation returned or raised
  disk,    \* the directories of the file system and their flow.xml
  server   \* the flows the server stores, the flow with id i at position i

vars == << model, flow, op, given, result, disk, server >>

Init ==
  /\ model \in Models \cup {PyNone}
  /\ flow = PyNone
  /\ op = "init"
  /\ given = PyNone
  /\ result = PyNone
  /\ disk = << >>
  /\ server = << >>

\* flow = extension.model_to_flow(model)
ModelToFlow ==
  /\ op = "init"
  /\ model # PyNone
  /\ flow' = model_to_flow(model)
  /\ op' = "model_to_flow"
  /\ UNCHANGED << model, given, result, disk, server >>

\* flow = OpenMLFlow(...), called with any parameter and meta names
NewFlow ==
  /\ op = "init"
  /\ model = PyNone
  /\ \E cls \in {"sklearn.tree.DT", "sklearn.ensemble.Ada"},
        ps \in SUBSET {"p", "base_estimator"}, ms \in SUBSET {"p", "base_estimator"},
        val \in {PyStr("null"), PyStr("1")},
        comps \in {<< >>, << Item(PyStr("base_estimator"), model_to_flow(DT(PyInt(1)))) >>} :
       /\ flow' = OpenMLFlow(cls, cls, comps, NamedItems(ps, val), NamedItems(ms, MetaInfo),
                             ExternalVersions, << >>, PyNone)
       /\ given' = [t |-> "OpenMLFlow", parameters |-> ps, parameters_meta_info |-> ms]
  /\ op' = "OpenMLFlow"
  /\ UNCHANGED << model, result, disk, server >>

\* result = extension.flow_to_model(flow, initialize_with_defaults)
FlowToModel ==
  /\ op \in {"model_to_flow", "OpenMLFlow"}
  /\ flow.t = "flow"
  /\ \E initialize_with_defaults \in BOOLEAN :
       /\ result' = flow_to_model(flow, initialize_with_defaults)
       /\ flow' = FlowAfter(flow, initialize_with_defaults)
       /\ given' = [t |-> "flow_to_model",
                    initialize_with_defaults |-> initialize_with_defaults,
                    keywords |-> ConstructorKeywords(flow, initialize_with_defaults),
                    flow_before |-> flow]
  /\ op' = "flow_to_model"
  /\ UNCHANGED << model, disk, server >>

Next == ModelToFlow \/ NewFlow \/ FlowToModel

Spec == Init /\ [][Next]_vars

----------------------------------------------------------------------------
\* The codec: model_to_flow and flow_to_model

RECURSIVE ConcatAll(_)
ConcatAll(seqs) == IF Len(seqs) = 0 THEN << >> ELSE seqs[1] \o ConcatAll(Tail(seqs))

\* The estimators met in a value, the value itself included.
RECURSIVE NestedEstimators(_)
NestedEstimators(x) ==
  CASE x.t = "est" ->
         << x >> \o ConcatAll([i \in 1..Len(InitArgs(x.cls)) |->
                                 NestedEstimators(x.args[InitArgs(x.cls)[i]])])
    [] IsSeqVal(x) -> ConcatAll([i \in 1..Len(x.xs) |-> NestedEstimators(x.xs[i])])
    [] IsMapping(x) -> ConcatAll([i \in 1..Len(x.kv) |-> NestedEstimators(x.kv[i].val)])
    [] OTHER -> << >>

\* The sub-components of a model: the estimators below it.
SubEstimators(m) == Tail(NestedEstimators(m))

\* Two sub-components of the model have the same flow name.
SameNameTwice(m) ==
  \E i, j \in 1..Len(SubEstimators(m)) :
    /\ i # j
    /\ model_to_flow(SubEstimators(m)[i]).t = "flow"
    /\ model_to_flow(SubEstimators(m)[j]).t = "flow"
    /\ model_to_flow(SubEstimators(m)[i]).name = model_to_flow(SubEstimators(m)[j]).name

\* A value still holds a component_reference envelope.
RECURSIVE ContainsReference(_)
ContainsReference(x) ==
  CASE x.t = "est" -> \E n \in DOMAIN x.args : ContainsReference(x.args[n])
    [] IsSeqVal(x) -> \E i \in 1..Len(x.xs) : ContainsReference(x.xs[i])
    [] IsMapping(x) ->
         \/ /\ HasKey(x.kv, PyStr("oml-python:serialized_object"))
            /\ Get(x.kv, PyStr("oml-python:serialized_object")) = PyStr("component_reference")
         \/ \E i \in 1..Len(x.kv) : ContainsReference(x.kv[i].k) \/ ContainsReference(x.kv[i].val)
    [] OTHER -> FALSE

\* parameters and parameters_meta_info have the same keys, at every level.
RECURSIVE KeysAgree(_)
KeysAgree(f) ==
  /\ Keys(f.parameters) = Keys(f.parameters_meta_info)
  /\ \A i \in 1..Len(f.components) : KeysAgree(f.components[i].val)

\* The identifiers met when walking the components below a flow.
RECURSIVE VisitedIdentifiers(_)
VisitedIdentifiers(components) ==
  IF Len(components) = 0 THEN << >>
  ELSE << components[1].k >> \o VisitedIdentifiers(components[1].val.components)
       \o VisitedIdentifiers(Tail(components))

NoRepeat(xs) == \A i, j \in 1..Len(xs) : i # j => xs[i] # xs[j]

\* C1: for a model built from None, bool, int, str, lists, tuples,
\* string-keyed dicts and nested estimators, flow_to_model(model_to_flow(m))
\* is an estimator of the class of m whose every constructor argument is
\* structurally equal to the argument of m.
C1_RoundTrip ==
  (op = "flow_to_model" /\ model # PyNone /\ ~given.initialize_with_defaults)
    => (result.t = "est" /\ result.cls = model.cls /\ PyEq(result, model))

\* C2: model_to_flow raises ValueError and returns no flow whenever two
\* sub-components anywhere below the model have the same flow name.
C2_DuplicateRejected ==
  (op = "model_to_flow" /\ SameNameTwice(model)) => flow = Raise("ValueError")

\* C3: flow_to_model(flow, initialize_with_defaults=True) completes, for
\* every flow that decodes without the flag, and hands the constructor no
\* keyword for a parameter that has a default and is no component key.
C3_DefaultsOmitted ==
  (/\ op = "flow_to_model"
   /\ given.initialize_with_defaults
   /\ flow_to_model(flow, FALSE).t = "est")
    => /\ result.t = "est"
       /\ given.keywords.t = "kwargs"
       /\ \A i \in 1..Len(_get_fn_arguments_with_defaults(flow.class_name)) :
            LET param == PyStr(_get_fn_arguments_with_defaults(flow.class_name)[i].k)
            IN ~HasKey(flow.components, param) => ~HasKey(given.keywords.kv, param)

\* C4: whenever flow_to_model returns, no constructor argument of the
\* rebuilt graph holds a component_reference envelope any more.
C4_NoEnvelope ==
  (op = "flow_to_model" /\ result.t = "est") => ~ContainsReference(result)

\* C4 happens: a flow with a (step_name, component, argument_1) reference
\* was rebuilt.
C4_Witness ==
  /\ op = "flow_to_model"
  /\ result.t = "est"
  /\ result.cls = "sklearn.ensemble.Vote"
  /\ result.args["estimators"].t \in {"list", "tuple"}
  /\ \E i \in 1..Len(result.args["estimators"].xs) :
       /\ result.args["estimators"].xs[i].t = "tuple"
       /\ Len(result.args["estimators"].xs[i].xs) = 3
       /\ result.args["estimators"].xs[i].xs[2].t = "est"

\* C5: a constructed OpenMLFlow has the same keys in parameters and
\* parameters_meta_info, at every nesting level of a flow of model_to_flow,
\* and constructing one whose key sets differ, either way, raises ValueError.
C5_SameKeys ==
  /\ flow.t = "flow" => KeysAgree(flow)
  /\ (op = "OpenMLFlow" /\ given.parameters # given.parameters_meta_info)
       => flow = Raise("ValueError")

\* C5 happens: a constructor call with a meta entry for no parameter raised.
C5_Witness ==
  /\ op = "OpenMLFlow"
  /\ given.parameters = {}
  /\ given.parameters_meta_info = {"p"}
  /\ flow = Raise("ValueError")

\* C6, as stated: in a flow returned by model_to_flow no component
\* identifier is met twice when walking the whole component tree.
C6_NoRepeatedIdentifier ==
  (op = "model_to_flow" /\ flow.t = "flow")
    => NoRepeat(VisitedIdentifiers(flow.components))

\* C6, amended: in a flow returned by model_to_flow no component flow name
\* is met twice when walking the component tree, and a model whose
\* collected components repeat a flow name is rejected with ValueError.
C6_NoRepeatedName ==
  op = "model_to_flow"
    => /\ flow.t = "flow" => NoRepeat(VisitedNames(flow.components))
       /\ (/\ ~IsErr(_extract_information_from_model(model))
           /\ ~NoRepeat(VisitedNames(_extract_information_from_model(model).sub_components)))
            => flow = Raise("ValueError")

\* C6 happens: a returned flow with components on two levels.
C6_Witness ==
  /\ op = "model_to_flow"
  /\ flow.t = "flow"
  /\ \E i \in 1..Len(flow.components) : Len(flow.components[i].val.components) > 0

----------------------------------------------------------------------------
\* The flow entity: get_structure, get_subflow, to_filesystem, publish

\* getattr(flow, key_item)
KeyOf(f, key_item) == IF key_item = "flow_id" THEN f.flow_id ELSE PyStr(f.name)

\* The inner loop of get_structure without the identifier put in front.
RECURSIVE Prefixed_without_key(_, _, _, _)
Prefixed_without_key(structure, key, sub_structure, i) ==
  IF i > Len(sub_structure) THEN structure
  ELSE Prefixed_without_key(Put(structure, sub_structure[i].k, sub_structure[i].val),
                            key, sub_structure, i + 1)

\* The inner loop of get_structure with the key put after the path of the
\* component: structure[flow_name] = flow_sub_structure + [key]
RECURSIVE Prefixed_key_last(_, _, _, _)
Prefixed_key_last(structure, key, sub_structure, i) ==
  IF i > Len(sub_structure) THEN structure
  ELSE Prefixed_key_last(Put(structure, sub_structure[i].k,
                             PyList(sub_structure[i].val.xs \o << key >>)),
                         key, sub_structure, i + 1)

\* The inner loop of get_structure:
\* structure[flow_name] = [key] + flow_sub_structure
RECURSIVE Prefixed(_, _, _, _)
Prefixed(structure, key, sub_structure, i) ==
  IF i > Len(sub_structure) THEN structure
  ELSE Prefixed(Put(structure, sub_structure[i].k,
                    PyList(<< key >> \o sub_structure[i].val.xs)),
                key, sub_structure, i + 1)

RECURSIVE get_structure(_, _), Structures(_, _, _, _)

\* The outer loop of get_structure, over self.components.items().
Structures(components, key_item, i, structure) ==
  IF i > Len(components) THEN structure
  ELSE Structures(components, key_item, i + 1,
                  Prefixed(structure, components[i].k,
                           get_structure(components[i].val, key_item).kv, 1))

get_structure(f, key_item) ==
  IF key_item \notin {"flow_id", "name"} THEN Raise("ValueError")
  ELSE PyDict(Put(Structures(f.components, key_item, 1, << >>),
                  KeyOf(f, key_item), PyList(<< >>)))

\* What a call leaves: its value or exception, and the caller's list.
Return(val, structure) == [t |-> "return", val |-> val, structure |-> structure]

\* get_subflow popping from the list of the caller.
RECURSIVE get_subflow_without_copy(_, _)
get_subflow_without_copy(f, structure) ==
  CASE Len(structure) < 1 -> Return(Raise("ValueError"), structure)
    [] ~HasKey(f.components, structure[1]) -> Return(Raise("ValueError"), structure)
    [] Len(structure) = 1 -> Return(Get(f.components, structure[1]), structure)
    [] OTHER -> get_subflow_without_copy(Get(f.components, structure[1]), Tail(structure))

\* get_subflow works on structure = list(structure): the pop acts on the
\* copy, and the list of the caller is what it was.
RECURSIVE get_subflow(_, _)
get_subflow(f, structure) ==
  CASE Len(structure) < 1 -> Return(Raise("ValueError"), structure)
    [] ~HasKey(f.components, structure[1]) -> Return(Raise("ValueError"), structure)
    [] Len(structure) = 1 -> Return(Get(f.components, structure[1]), structure)
    [] OTHER ->
         Return(get_subflow(Get(f.components, structure[1]), Tail(structure)).val, structure)

\* The oml:parameter entries of _to_dict with the test of the names only.
ParameterEntries_names_only(f) ==
  IF \E i \in 1..Len(f.parameters) : ~IsString(f.parameters[i].k)
  THEN Raise("ValueError")
  ELSE [t |-> "entries",
        xs |-> [i \in 1..Len(f.parameters) |->
                  [name |-> f.parameters[i].k, default_value |-> f.parameters[i].val]]]

\* The oml:parameter entries of _to_dict: a name or a value that is neither
\* a string nor None raises ValueError.
ParameterEntries(f) ==
  IF \E i \in 1..Len(f.parameters) :
       \/ ~IsString(f.parameters[i].k)
       \/ ~(IsString(f.parameters[i].val) \/ f.parameters[i].val = PyNone)
  THEN Raise("ValueError")
  ELSE [t |-> "entries",
        xs |-> [i \in 1..Len(f.parameters) |->
                  [name |-> f.parameters[i].k, default_value |-> f.parameters[i].val]]]

\* The document of a flow once its parameter and component entries are made.
FlowDocument(f, parameter, component) ==
  CASE IsErr(parameter) -> parameter
    [] IsErr(FirstErr(component)) -> FirstErr(component)
    [] \E i \in 1..Len(f.components) : ~IsString(f.components[i].k) -> Raise("ValueError")
    [] OTHER ->
         [t |-> "oml:flow", id |-> f.flow_id, uploader |-> f.uploader, name |-> f.name,
          class_name |-> f.class_name, version |-> f.version,
          external_version |-> f.external_version, upload_date |-> f.upload_date,
          parameter |-> parameter.xs, tag |-> f.tags,
          component |-> [i \in 1..Len(component) |->
                           [identifier |-> f.components[i].k, flow |-> component[i]]]]

\* name and external_version are never None in the flows of the model.
RECURSIVE _to_dict(_)
_to_dict(f) ==
  FlowDocument(f, ParameterEntries(f),
               [i \in 1..Len(f.components) |-> _to_dict(f.components[i].val)])

\* xmltodict writes a value that is no string as str(value).
Text(v) == IF v.t = "int" THEN PyStr(ToString(v.i)) ELSE v

\* The elements xmltodict.unparse emits for a document.
RECURSIVE Emitted(_)
Emitted(d) ==
  [d EXCEPT !.id = Text(d.id), !.uploader = Text(d.uploader), !.version = Text(d.version),
            !.tag = [i \in 1..Len(d.tag) |-> Text(d.tag[i])],
            !.component = [i \in 1..Len(d.component) |->
                             [identifier |-> d.component[i].identifier,
                              flow |-> Emitted(d.component[i].flow)]]]

\* The text of the document.
Unparse(d) == IF IsErr(d) THEN d ELSE [t |-> "xml", text |-> Emitted(d)]

_to_xml(f) == Unparse(_to_dict(f))

\* The directories a flow is written to.
Directories == {"d1", "d2"}
NoDirectory == [t |-> "absent"]
Directory(flow_xml) == [t |-> "dir", flow_xml |-> flow_xml]

\* os.makedirs(output_directory, exist_ok=True)
makedirs(fs, d) == IF fs[d] = NoDirectory THEN [fs EXCEPT ![d] = Directory(PyNone)] ELSE fs

\* What a call on the file system leaves: its value and the file system.
Left(val, fs) == [t |-> "left", val |-> val, disk |-> fs]

\* to_filesystem writing over a flow.xml that is there.
to_filesystem_overwrite(f, fs, d) ==
  IF IsErr(_to_xml(f)) THEN Left(_to_xml(f), makedirs(fs, d))
  ELSE Left(PyNone, [fs EXCEPT ![d] = Directory(_to_xml(f))])

to_filesystem(f, fs, d) ==
  CASE makedirs(fs, d)[d].flow_xml # PyNone -> Left(Raise("ValueError"), makedirs(fs, d))
    [] IsErr(_to_xml(f)) -> Left(_to_xml(f), makedirs(fs, d))
    [] OTHER -> Left(PyNone, [fs EXCEPT ![d] = Directory(_to_xml(f))])

\* The fields the server adds to a flow it stores under id, and to the
\* components below it.
RECURSIVE Registered(_, _)
Registered(f, id) ==
  [f EXCEPT !.flow_id = PyInt(id), !.uploader = PyInt(1), !.version = PyInt(1),
            !.upload_date = PyStr("2019-01-01T00:00:00"),
            !.components = [i \in 1..Len(f.components) |->
                              Item(f.components[i].k,
                                   Registered(f.components[i].val, 10 * id + i))]]

\* How the server stores an uploaded flow: as it is, without its components,
\* or with a component the flow does not have.
Storings == {"faithful", "without components", "with another component"}
StoredAs(f, id, storing) ==
  CASE storing = "without components" -> [Registered(f, id) EXCEPT !.components = << >>]
    [] storing = "with another component" ->
         [Registered(f, id) EXCEPT
            !.components = Append(@, Item(PyStr("another"),
                                          Registered([f EXCEPT !.components = << >>],
                                                     10 * id + 9)))]
    [] OTHER -> Registered(f, id)

\* openml.flows.functions.flow_exists: the id of the flow with this name and
\* external_version, or 0 (False).
flow_exists(srv, name, external_version) ==
  IF \E i \in 1..Len(srv) : srv[i].name = name /\ srv[i].external_version = external_version
  THEN CHOOSE i \in 1..Len(srv) :
         /\ srv[i].name = name /\ srv[i].external_version = external_version
         /\ \A j \in 1..(i - 1) :
              ~(srv[j].name = name /\ srv[j].external_version = external_version)
  ELSE 0

\* openml.flows.functions.get_flow
get_flow(srv, flow_id) == srv[flow_id]

\* openml.flows.functions.assert_flows_equal, parameter values ignored: TRUE
\* when the flows are equal, the ValueError otherwise.
RECURSIVE assert_flows_equal(_, _)
assert_flows_equal(a, b) ==
  /\ a.name = b.name /\ a.class_name = b.class_name
  /\ a.external_version = b.external_version
  /\ a.flow_id = b.flow_id /\ a.uploader = b.uploader /\ a.version = b.version
  /\ a.upload_date = b.upload_date
  /\ Keys(a.parameters) = Keys(b.parameters)
  /\ Keys(a.components) = Keys(b.components)
  /\ \A k \in Keys(a.components) :
       assert_flows_equal(Get(a.components, k), Get(b.components, k))

\* What _copy_server_fields has made of the target flow, and whether its
\* assert held.
Copied(f, ok) == [t |-> "copied", flow |-> f, ok |-> ok]

\* The component name of the target flow is what the copy made of it.
Merged(acc, name, sub) ==
  Copied([acc.flow EXCEPT !.components = Put(@, name, sub.flow)], sub.ok)

\* _copy_server_fields taking the whole flow of the server for the target.
_copy_server_fields_whole(source_flow, target_flow) == Copied(source_flow, TRUE)

RECURSIVE _copy_server_fields(_, _), CopyComponents(_, _, _)

\* The loop of _copy_server_fields over source_flow.components.items().
CopyComponents(source_components, i, acc) ==
  CASE ~acc.ok \/ i > Len(source_components) -> acc
    [] ~HasKey(acc.flow.components, source_components[i].k) -> Copied(acc.flow, FALSE)
    [] OTHER ->
         CopyComponents(source_components, i + 1,
                        Merged(acc, source_components[i].k,
                               _copy_server_fields(source_components[i].val,
                                                   Get(acc.flow.components,
                                                       source_components[i].k))))

_copy_server_fields(source_flow, target_flow) ==
  CopyComponents(source_flow.components, 1,
                 Copied([target_flow EXCEPT !.flow_id = source_flow.flow_id,
                                            !.uploader = source_flow.uploader,
                                            !.version = source_flow.version,
                                            !.upload_date = source_flow.upload_date], TRUE))

\* What publish leaves: its value or exception, the flow and the server.
Published(val, f, srv) == [t |-> "published", val |-> val, flow |-> f, server |-> srv]

\* publish from get_flow on: the server's fields are copied, then the
\* flows are compared.
Compare(copied, srv, flow_id) ==
  CASE ~copied.ok -> Published(Raise("AssertionError"), copied.flow, srv)
    [] ~assert_flows_equal(copied.flow, get_flow(srv, flow_id)) ->
         Published(Raise("ValueError"), copied.flow, srv)
    [] OTHER -> Published(copied.flow, copied.flow, srv)

Fetch(f, srv, flow_id) ==
  Compare(_copy_server_fields(get_flow(srv, flow_id), f), srv, flow_id)

\* publish without the test of the local flow_id of a flow the server lacks.
publish_without_local_id_test(f, srv, raise_error_if_exists, storing) ==
  CASE flow_exists(srv, f.name, f.external_version) = 0 /\ IsErr(_to_xml(f)) ->
         Published(_to_xml(f), f, srv)
    [] flow_exists(srv, f.name, f.external_version) = 0 ->
         Fetch(f, Append(srv, StoredAs(f, Len(srv) + 1, storing)), Len(srv) + 1)
    [] raise_error_if_exists -> Published(Raise("PyOpenMLError"), f, srv)
    [] f.flow_id # PyNone /\ f.flow_id # PyInt(flow_exists(srv, f.name, f.external_version)) ->
         Published(Raise("PyOpenMLError"), f, srv)
    [] OTHER -> Fetch(f, srv, flow_exists(srv, f.name, f.external_version))

\* publish: storing is how the server stores the document if it is uploaded.
publish(f, srv, raise_error_if_exists, storing) ==
  CASE flow_exists(srv, f.name, f.external_version) = 0 /\ f.flow_id # PyNone ->
         Published(Raise("PyOpenMLError"), f, srv)
    [] flow_exists(srv, f.name, f.external_version) = 0 /\ IsErr(_to_xml(f)) ->
         Published(_to_xml(f), f, srv)
    [] flow_exists(srv, f.name, f.external_version) = 0 ->
         Fetch(f, Append(srv, StoredAs(f, Len(srv) + 1, storing)), Len(srv) + 1)
    [] raise_error_if_exists -> Published(Raise("PyOpenMLError"), f, srv)
    [] f.flow_id # PyNone /\ f.flow_id # PyInt(flow_exists(srv, f.name, f.external_version)) ->
         Published(Raise("PyOpenMLError"), f, srv)
    [] OTHER -> Fetch(f, srv, flow_exists(srv, f.name, f.external_version))

\* The flow objects at hand: flows of model_to_flow, a flow built by hand
\* with a parameter value that is no string, and one built by hand whose
\* two components have one name; each unpublished or with a flow_id.
\* A flow_id is None or an id of the server, which is positive, so that
\* `if self.flow_id:` and `self.flow_id is not None` agree.
BuiltFlows ==
  {model_to_flow(m) :
     m \in {DT(PyNone), Ada(DT(PyNone)), Ada(Ada(DT(PyNone))),
            Vote(PyList(<< PyTuple(<< PyStr("a"), DT(PyNone) >>),
                           PyTuple(<< PyStr("b"), NB >>) >>)),
            Vote(PyList(<< PyTuple(<< PyStr("a"), Ada(DT(PyNone)) >>),
                           PyTuple(<< PyStr("b"), NB >>) >>))}}
HandMadeFlows ==
  {OpenMLFlow("custom.Flow", "custom.Flow", << >>, << Item(PyStr("p"), PyInt(1)) >>,
              << Item(PyStr("p"), MetaInfo) >>, ExternalVersions, << >>, PyNone),
   OpenMLFlow("custom.Pair", "custom.Pair",
              << Item(PyStr("a"), model_to_flow(DT(PyNone))),
                 Item(PyStr("b"), model_to_flow(DT(PyNone))) >>,
              << >>, << >>, ExternalVersions, << >>, PyNone)}
\* Flows constructed with tags of their own: a string, a number, and a
\* component with a number.
Tagged(name, default_value, tags, components) ==
  OpenMLFlow(name, name, components, << Item(PyStr("p"), default_value) >>,
             << Item(PyStr("p"), MetaInfo) >>, ExternalVersions, tags, PyNone)
TaggedFlows ==
  {Tagged("custom.Tagged", PyNone, << PyStr("study_1") >>, << >>),
   Tagged("custom.Numbered", PyStr("1"), << PyInt(1) >>, << >>),
   Tagged("custom.Outer", PyStr("1"), << >>,
          << Item(PyStr("a"), Tagged("custom.Numbered", PyStr("1"), << PyInt(1) >>, << >>)) >>),
   Tagged("custom.Holder", PyStr("1"), << >>,
          << Item(PyStr("a"), Tagged("custom.Flow", PyInt(1), << >>, << >>)) >>)}
FlowObjects ==
  {[f EXCEPT !.flow_id = id] :
     f \in BuiltFlows \cup HandMadeFlows \cup TaggedFlows, id \in {PyNone, PyInt(1), PyInt(2)}}

\* What the server stores at the start: nothing, another flow, the flow at
\* hand in one of the ways the server stores it, or both.
AnotherFlow == Registered(model_to_flow(NB), 1)
ServerStates(f) ==
  {<< >>, << AnotherFlow >>, << AnotherFlow, StoredAs(f, 2, "faithful") >>}
  \cup {<< StoredAs(f, 1, storing) >> : storing \in Storings}

Identifiers == {PyStr("a"), PyStr("b"), PyStr("base_estimator")}

FlowInit ==
  /\ model = PyNone
  /\ flow \in FlowObjects
  /\ op = "init"
  /\ given = PyNone
  /\ result = PyNone
  /\ disk = [d \in Directories |-> NoDirectory]
  /\ server \in ServerStates([flow EXCEPT !.flow_id = PyNone])

\* result = flow.get_structure(key_item)
GetStructure ==
  /\ \E key_item \in {"flow_id", "name", "class_name"} :
       /\ result' = get_structure(flow, key_item)
       /\ given' = [t |-> "get_structure", key_item |-> key_item]
  /\ op' = "get_structure"
  /\ UNCHANGED << model, flow, disk, server >>

\* result = flow.get_subflow(structure)
GetSubflow ==
  /\ \E structure \in Seqs(Identifiers, MaxLen) :
       /\ result' = get_subflow(flow, structure).val
       /\ given' = [t |-> "get_subflow", structure |-> structure,
                    structure_after |-> get_subflow(flow, structure).structure]
  /\ op' = "get_subflow"
  /\ UNCHANGED << model, flow, disk, server >>

\* flow.to_filesystem(output_directory)
ToFilesystem ==
  /\ \E output_directory \in Directories :
       /\ result' = to_filesystem(flow, disk, output_directory).val
       /\ disk' = to_filesystem(flow, disk, output_directory).disk
       /\ given' = [t |-> "to_filesystem", output_directory |-> output_directory,
                    disk_before |-> disk]
  /\ op' = "to_filesystem"
  /\ UNCHANGED << model, flow, server >>

\* result = flow._to_xml()
ToXml ==
  /\ result' = _to_xml(flow)
  /\ given' = [t |-> "_to_xml"]
  /\ op' = "_to_xml"
  /\ UNCHANGED << model, flow, disk, server >>

\* result = flow.publish(raise_error_if_exists)
Publish ==
  /\ \E raise_error_if_exists \in BOOLEAN, storing \in Storings :
       /\ result' = publish(flow, server, raise_error_if_exists, storing).val
       /\ flow' = publish(flow, server, raise_error_if_exists, storing).flow
       /\ server' = publish(flow, server, raise_error_if_exists, storing).server
       /\ given' = [t |-> "publish", raise_error_if_exists |-> raise_error_if_exists,
                    exists |-> flow_exists(server, flow.name, flow.external_version),
                    flow_id |-> flow.flow_id, server_before |-> Len(server),
                    flow_before |-> flow]
  /\ op' = "publish"
  /\ UNCHANGED << model, disk >>

FlowNext == GetStructure \/ GetSubflow \/ ToFilesystem \/ ToXml \/ Publish

FlowSpec == FlowInit /\ [][FlowNext]_vars

\* The paths of identifiers from a flow to the flows of its tree.
RECURSIVE AllPaths(_)
AllPaths(f) ==
  {<< >>} \cup UNION {{<< f.components[i].k >> \o path : path \in AllPaths(f.components[i].val)} :
                      i \in 1..Len(f.components)}

\* The component identifier of a flow, or ValueError where there is no flow
\* or no such component.
Component(parent, identifier) ==
  IF IsErr(parent) \/ ~HasKey(parent.components, identifier) THEN Raise("ValueError")
  ELSE Get(parent.components, identifier)

\* The flow reached from f by the identifiers of path.
RECURSIVE Follow(_, _)
Follow(f, path) ==
  IF Len(path) = 0 THEN f
  ELSE Component(Follow(f, SubSeq(path, 1, Len(path) - 1)), path[Len(path)])

\* C7, as stated: get_structure(key_item), for flow_id and name, returns a
\* mapping with one entry for every flow of the tree, each mapped to the
\* identifiers leading from the root to it, the root to the empty list; any
\* other key_item raises ValueError.
C7_EntryForEveryFlow ==
  op = "get_structure"
    => IF given.key_item \notin {"flow_id", "name"} THEN result = Raise("ValueError")
       ELSE /\ result.t = "dict"
            /\ Len(result.kv) = Cardinality(AllPaths(flow))
            /\ \A path \in AllPaths(flow) :
                 /\ HasKey(result.kv, KeyOf(Follow(flow, path), given.key_item))
                 /\ Get(result.kv, KeyOf(Follow(flow, path), given.key_item)) = PyList(path)

\* C7, amended: the mapping has one entry for every distinct key among the
\* flows of the tree, each entry leads from the root to a flow with that
\* key, the key of the root leads to the empty list, and where the keys of
\* the flows differ every flow has its entry; any other key_item raises
\* ValueError.
C7_EntryForEveryKey ==
  op = "get_structure"
    => IF given.key_item \notin {"flow_id", "name"} THEN result = Raise("ValueError")
       ELSE /\ result.t = "dict"
            /\ Keys(result.kv) = {KeyOf(Follow(flow, path), given.key_item) :
                                    path \in AllPaths(flow)}
            /\ Len(result.kv) = Cardinality(Keys(result.kv))
            /\ Get(result.kv, KeyOf(flow, given.key_item)) = PyList(<< >>)
            /\ \A i \in 1..Len(result.kv) :
                 /\ result.kv[i].val.t = "list"
                 /\ result.kv[i].val.xs \in AllPaths(flow)
                 /\ KeyOf(Follow(flow, result.kv[i].val.xs), given.key_item) = result.kv[i].k
            /\ (\A p, q \in AllPaths(flow) :
                  p # q => KeyOf(Follow(flow, p), given.key_item)
                             # KeyOf(Follow(flow, q), given.key_item))
                 => \A path \in AllPaths(flow) :
                      Get(result.kv, KeyOf(Follow(flow, path), given.key_item)) = PyList(path)

\* C7 happens: the structure of a flow with components on two levels, by name.
C7_Witness ==
  /\ op = "get_structure"
  /\ given.key_item = "name"
  /\ result.t = "dict"
  /\ \E i \in 1..Len(result.kv) : Len(result.kv[i].val.xs) = 2

\* C8: get_subflow(path) returns the flow reached by following the
\* identifiers of path through components, raises ValueError when path is
\* empty or a segment is no component of the flow reached so far, and leaves
\* the list of the caller as it was.
C8_Subflow ==
  op = "get_subflow"
    => /\ given.structure_after = given.structure
       /\ result = IF Len(given.structure) = 0 THEN Raise("ValueError")
                   ELSE Follow(flow, given.structure)

\* C8 happens: a path of two identifiers led to a flow.
C8_Witness ==
  /\ op = "get_subflow"
  /\ Len(given.structure) = 2
  /\ result.t = "flow"

\* C9, as stated: to_filesystem raises ValueError and leaves the file
\* unchanged when the directory holds a flow.xml, and writes a flow.xml
\* otherwise.
C9_WritesOtherwise ==
  op = "to_filesystem"
    => IF /\ given.disk_before[given.output_directory] # NoDirectory
          /\ given.disk_before[given.output_directory].flow_xml # PyNone
       THEN result = Raise("ValueError") /\ disk = given.disk_before
       ELSE /\ result = PyNone
            /\ disk[given.output_directory].flow_xml # PyNone

\* C9, amended: to_filesystem raises ValueError and leaves the file
\* unchanged when the directory holds a flow.xml; otherwise, when the
\* document of the flow can be made, it writes that document as the one
\* flow.xml of the directory, and when it cannot it raises ValueError and
\* writes no file; no other directory is touched.
C9_WritesDocument ==
  op = "to_filesystem"
    => /\ \A d \in Directories \ {given.output_directory} : disk[d] = given.disk_before[d]
       /\ disk[given.output_directory] # NoDirectory
       /\ IF /\ given.disk_before[given.output_directory] # NoDirectory
             /\ given.disk_before[given.output_directory].flow_xml # PyNone
          THEN result = Raise("ValueError") /\ disk = given.disk_before
          ELSE IF IsErr(_to_xml(flow))
               THEN /\ result = Raise("ValueError")
                    /\ disk[given.output_directory].flow_xml = PyNone
               ELSE /\ result = PyNone
                    /\ disk[given.output_directory].flow_xml = _to_xml(flow)

\* C9 happens: a second to_filesystem to a directory failed and left the
\* flow.xml of the first.
C9_Witness ==
  /\ op = "to_filesystem"
  /\ result = Raise("ValueError")
  /\ given.disk_before[given.output_directory] # NoDirectory
  /\ given.disk_before[given.output_directory].flow_xml # PyNone
  /\ disk[given.output_directory].flow_xml = _to_xml(flow)

\* C10: publish uploads the document only when the lookup for (name,
\* external_version) reports the flow absent and the local flow_id is unset;
\* it raises PyOpenMLError without an upload when the flow is absent and the
\* local flow_id is set, when the flow exists and raise_error_if_exists is
\* true, and when the flow exists under an id other than the local flow_id.
C10_Upload ==
  op = "publish"
    => /\ Len(server) > given.server_before
         => (given.exists = 0 /\ given.flow_id = PyNone)
       /\ (\/ given.exists = 0 /\ given.flow_id # PyNone
           \/ given.exists # 0 /\ given.raise_error_if_exists
           \/ given.exists # 0 /\ given.flow_id # PyNone /\ given.flow_id # PyInt(given.exists))
         => (result = Raise("PyOpenMLError") /\ Len(server) = given.server_before)

\* C10 happens: a flow the server lacked, with no local flow_id, was uploaded.
C10_Witness ==
  /\ op = "publish"
  /\ given.exists = 0
  /\ given.flow_id = PyNone
  /\ Len(server) = given.server_before + 1
  /\ result.t = "flow"

\* A flow without the fields the server adds, at every level.
RECURSIVE WithoutServerFields(_)
WithoutServerFields(f) ==
  [f EXCEPT !.flow_id = PyNone, !.uploader = PyNone, !.version = PyNone,
            !.upload_date = PyNone,
            !.components = [i \in 1..Len(f.components) |->
                              Item(f.components[i].k,
                                   WithoutServerFields(f.components[i].val))]]

ServerFields(f) == << f.flow_id, f.uploader, f.version, f.upload_date >>

\* C11: publish changes no attribute of the local flow or of a nested
\* component other than flow_id, uploader, version and upload_date; after
\* a publish that returns, these are the ones of the re-fetched server flow
\* for the root and for every component of the server flow.
C11_Frame ==
  op = "publish"
    => /\ WithoutServerFields(flow) = WithoutServerFields(given.flow_before)
       /\ result.t = "flow"
            => /\ flow.flow_id.t = "int"
               /\ \A path \in AllPaths(get_flow(server, flow.flow_id.i)) :
                    ServerFields(Follow(flow, path))
                      = ServerFields(Follow(get_flow(server, flow.flow_id.i), path))

\* C11 happens: an unpublished flow with a component was published and the
\* component has the id the server gave it.
C11_Witness ==
  /\ op = "publish"
  /\ result.t = "flow"
  /\ given.flow_before.flow_id = PyNone
  /\ Len(flow.components) > 0
  /\ flow.components[1].val.flow_id # PyNone
  /\ given.flow_before.components[1].val.flow_id = PyNone

----------------------------------------------------------------------------
\* Containers across model_to_flow and flow_to_model

\* b is a list where a is a list and a tuple where a is a tuple, at every
\* depth inside lists, tuples and mappings.
RECURSIVE SameSequenceTypes(_, _)
SameSequenceTypes(a, b) ==
  CASE IsSeqVal(a) ->
         /\ b.t = a.t
         /\ Len(b.xs) = Len(a.xs)
         /\ \A i \in 1..Len(a.xs) : SameSequenceTypes(a.xs[i], b.xs[i])
    [] IsMapping(a) ->
         /\ IsMapping(b)
         /\ \A k \in Keys(a.kv) \cap Keys(b.kv) :
              SameSequenceTypes(Get(a.kv, k), Get(b.kv, k))
    [] OTHER -> TRUE

HasSequence(a) == IsSeqVal(a) \/ (IsMapping(a) /\ \E i \in 1..Len(a.kv) : IsSeqVal(a.kv[i].val))

\* C17: a constructor argument that is a tuple, at any depth inside lists,
\* tuples or dicts, is a tuple again after flow_to_model(model_to_flow(m)),
\* and one that is a list is a list again.
C17_SequenceTypeKept ==
  (/\ op = "flow_to_model"
   /\ model.t = "est"
   /\ model.cls = "sklearn.tree.DT"
   /\ HasSequence(model.args.p))
    => (result.t = "est" /\ SameSequenceTypes(model.args.p, result.args.p))

\* The keys of a mapping in iteration order.
KeysInOrder(kv) == [i \in 1..Len(kv) |-> kv[i].k]

\* C20: an ordered mapping argument comes back from
\* flow_to_model(model_to_flow(m)) as a mapping with the same keys in the
\* same iteration order.
C20_KeyOrderKept ==
  (/\ op = "flow_to_model"
   /\ model.t = "est"
   /\ model.cls = "sklearn.tree.DT"
   /\ model.args.p.t = "odict"
   /\ Len(model.args.p.kv) > 0)
    => /\ result.t = "est"
       /\ IsMapping(result.args.p)
       /\ KeysInOrder(result.args.p.kv) = KeysInOrder(model.args.p.kv)

----------------------------------------------------------------------------
\* External versions

Entries(f) == {f.external_version[i] : i \in 1..Len(f.external_version)}

\* The entries are in sorted order and none is there twice.
SortedOnce(xs) == \A i, j \in 1..Len(xs) : i < j => PkgRank(xs[i]) < PkgRank(xs[j])

\* C19: the external_version of every flow built by model_to_flow is the
\* sorted, duplicate-free union of the entry of the model's package, the
\* entry of openml and the entries of its direct components, so it holds
\* every entry of every nested component.
C19_ExternalVersion ==
  (op = "model_to_flow" /\ flow.t = "flow")
    => \A path \in AllPaths(flow) :
         /\ SortedOnce(Follow(flow, path).external_version)
         /\ Entries(Follow(flow, path))
              = {PackageEntry(Follow(flow, path).class_name), OpenmlEntry}
                \cup UNION {Entries(Follow(flow, path).components[i].val) :
                              i \in 1..Len(Follow(flow, path).components)}
         /\ \A longer \in AllPaths(Follow(flow, path)) :
              Entries(Follow(Follow(flow, path), longer)) \subseteq Entries(Follow(flow, path))

\* C19 happens: a flow of an sklearn model holds the entry of a component
\* two levels below that comes from another package.
C19_Witness ==
  /\ op = "model_to_flow"
  /\ flow.t = "flow"
  /\ PackageEntry(model.cls).pkg = "sklearn"
  /\ \E path \in AllPaths(flow) :
       /\ Len(path) = 2
       /\ PackageEntry(Follow(flow, path).class_name).pkg = "xgboost"
       /\ PackageEntry(Follow(flow, path).class_name) \in Entries(flow)

----------------------------------------------------------------------------
\* The document of a flow

DefaultValues(f) == {f.parameters[i].val : i \in 1..Len(f.parameters)}
Names(f) ==
  {f.parameters[i].k : i \in 1..Len(f.parameters)}
  \cup {f.components[i].k : i \in 1..Len(f.components)}
Tags(f) == {f.tags[i] : i \in 1..Len(f.tags)}

\* The document of d and of every document below it.
RECURSIVE Documents(_)
Documents(d) ==
  {d} \cup UNION {Documents(d.component[i].flow) : i \in 1..Len(d.component)}

----------------------------------------------------------------------------
\* Running a model on a fold

NumClasses == 3
NumTest == 2
MaxIter == 2

RF(n_jobs) == Estimator("sklearn.ensemble.RF", [n \in {"n_jobs"} |-> n_jobs])
Pipeline(clf) ==
  Estimator("sklearn.pipeline.Pipeline",
            [n \in {"steps"} |-> PyList(<< PyTuple(<< PyStr("clf"), clf >>) >>)])
GridSearchCV(estimator, param_grid, n_jobs) ==
  Estimator("sklearn.model_selection.GridSearchCV",
            [estimator |-> estimator, n_jobs |-> n_jobs, param_grid |-> param_grid])
RandomizedSearchCV(estimator, param_distributions, n_jobs) ==
  Estimator("sklearn.model_selection.RandomizedSearchCV",
            [estimator |-> estimator, n_jobs |-> n_jobs,
             param_distributions |-> param_distributions])

\* isinstance(model, sklearn.model_selection._search.BaseSearchCV)
_is_hpo_class(m) ==
  /\ m.t = "est"
  /\ m.cls \in {"sklearn.model_selection.GridSearchCV",
                "sklearn.model_selection.RandomizedSearchCV"}

\* param.split('__')[-1] for the parameter names of the models.
Segments == {"n_jobs", "p", "steps", "estimator", "param_grid", "param_distributions", "clf"}
Prefixes == {"clf", "estimator", "clf__estimator", "estimator__clf"}
LastSegment(param) ==
  IF \E x \in Segments : \E q \in Prefixes : param = q \o "__" \o x
  THEN CHOOSE x \in Segments : \E q \in Prefixes : param = q \o "__" \o x
  ELSE param

\* The items of a sub-estimator under the name of the parameter or step.
Nested(name, kv) ==
  [i \in 1..Len(kv) |-> Item(PyStr(name \o "__" \o kv[i].k.v), kv[i].val)]

\* model.get_params(deep=True): every constructor parameter, the steps of a
\* pipeline by name, and the parameters of every estimator among them under
\* name__parameter.
RECURSIVE get_params(_), ParamsFrom(_, _), StepParams(_, _)
OneParam(k, v, deep) == << Item(PyStr(k), v) >> \o Nested(k, deep)

ParamsFrom(m, i) ==
  IF i > Len(InitArgs(m.cls)) THEN << >>
  ELSE OneParam(InitArgs(m.cls)[i], m.args[InitArgs(m.cls)[i]],
                IF m.args[InitArgs(m.cls)[i]].t = "est"
                THEN get_params(m.args[InitArgs(m.cls)[i]]) ELSE << >>)
       \o ParamsFrom(m, i + 1)

StepParams(steps, i) ==
  IF i > Len(steps) THEN << >>
  ELSE OneParam(steps[i].xs[1].v, steps[i].xs[2], get_params(steps[i].xs[2]))
       \o StepParams(steps, i + 1)

get_params(m) ==
  ParamsFrom(m, 1)
  \o (IF m.cls = "sklearn.pipeline.Pipeline" THEN StepParams(m.args.steps.xs, 1) ELSE << >>)

\* The values of the keys of a dict whose last segment is parameter_name.
ValuesOf(kv, parameter_name) ==
  LET hits == SelectSeq(kv, LAMBDA it : LastSegment(it.k.v) = parameter_name)
  IN [i \in 1..Len(hits) |-> hits[i].val]

RECURSIVE ValuesOfAll(_, _, _)
ValuesOfAll(sub_grids, i, parameter_name) ==
  CASE i > Len(sub_grids) -> PyList(<< >>)
    [] sub_grids[i].t = "dict" ->
         PyList(ValuesOf(sub_grids[i].kv, parameter_name)
                \o ValuesOfAll(sub_grids, i + 1, parameter_name).xs)
    [] OTHER -> Raise("ValueError")

\* _get_parameter_values_recursive that looks into a dict only.
_get_parameter_values_of_dict(param_grid, parameter_name) ==
  CASE param_grid.t = "dict" -> PyList(ValuesOf(param_grid.kv, parameter_name))
    [] param_grid.t = "list" -> PyList(<< >>)
    [] OTHER -> Raise("ValueError")

_get_parameter_values_recursive(param_grid, parameter_name) ==
  CASE param_grid.t = "dict" -> PyList(ValuesOf(param_grid.kv, parameter_name))
    [] param_grid.t = "list" -> ValuesOfAll(param_grid.xs, 1, parameter_name)
    [] OTHER -> Raise("ValueError")

\* The search space of a search wrapper.
param_distributions(m) ==
  IF m.cls = "sklearn.model_selection.GridSearchCV" THEN m.args.param_grid
  ELSE m.args.param_distributions

\* _prevent_optimize_n_jobs: None, or the error it raises.
_prevent_optimize_n_jobs(m) ==
  CASE ~_is_hpo_class(m) -> PyNone
    [] IsErr(_get_parameter_values_recursive(param_distributions(m), "n_jobs")) ->
         _get_parameter_values_recursive(param_distributions(m), "n_jobs")
    [] Len(_get_parameter_values_recursive(param_distributions(m), "n_jobs").xs) > 0 ->
         Raise("PyOpenMLError")
    [] OTHER -> PyNone

\* The n_jobs values of model.get_params().
n_jobs_vals(m) == _get_parameter_values_recursive(PyDict(get_params(m)), "n_jobs").xs

\* _can_measure_cputime looking at the model's own n_jobs only.
_can_measure_cputime_shallow(m) ==
  ~("n_jobs" \in DOMAIN m.args) \/ m.args["n_jobs"] = PyNone \/ m.args["n_jobs"] = PyInt(1)

_can_measure_cputime(m) ==
  \A i \in 1..Len(n_jobs_vals(m)) :
    n_jobs_vals(m)[i] = PyNone \/ n_jobs_vals(m)[i] = PyInt(1)

_can_measure_wallclocktime(m) ==
  \A i \in 1..Len(n_jobs_vals(m)) : n_jobs_vals(m)[i] # PyInt(-1)

\* The tasks: class_labels is None or the list of the NumClasses labels.
Task(kind, class_labels) == [t |-> "task", kind |-> kind, class_labels |-> class_labels]
IsSupervised(task) == task.kind \in {"classification", "learning_curve", "regression"}
IsClassification(task) == task.kind \in {"classification", "learning_curve"}

\* What the call leaves: its value or error, and the objects fit was
\* invoked on.
Ran(val, fitted) == [t |-> "ran", val |-> val, fitted |-> fitted]

\* A numpy array of rows and columns.
Array(rows) == [t |-> "ndarray", rows |-> rows]

\* _prediction_to_probabilities(y, classes): a one in the column of the
\* prediction.
_prediction_to_probabilities(y, classes) ==
  Array([obs \in 1..Len(y) |-> [c \in 1..Len(classes) |-> IF c - 1 = y[obs] THEN 1 ELSE 0]])

\* The columns of the model put at the position of the column idx.
Realigned_by_position(proba_y, model_classes, width) ==
  Array([obs \in 1..Len(proba_y.rows) |->
           [c \in 1..width |-> IF c <= Len(model_classes) THEN proba_y.rows[obs][c] ELSE 0]])

\* proba_y_new of _run_model_on_fold: zeros, and the column idx of the model
\* at the position of its class.
Realigned(proba_y, model_classes, width) ==
  Array([obs \in 1..Len(proba_y.rows) |->
           [c \in 1..width |->
              IF \E idx \in 1..Len(model_classes) : model_classes[idx] = c - 1
              THEN proba_y.rows[obs][CHOOSE idx \in 1..Len(model_classes) :
                                       model_classes[idx] = c - 1]
              ELSE 0]])

\* proba_y returned as predict_proba gave it, whatever the class labels.
Aligned_never(proba_y, model_classes, class_labels) == proba_y

\* proba_y after the comparison with the class labels of the task.
Aligned(proba_y, model_classes, class_labels) ==
  IF Len(proba_y.rows[1]) # Len(class_labels.xs)
  THEN Realigned(proba_y, model_classes, Len(class_labels.xs))
  ELSE proba_y

\* The probabilities of the call: those of predict_proba, or of the
\* predictions where the model has no predict_proba.
Probabilities(task, fit) ==
  CASE ~IsClassification(task) -> PyNone
    [] task.class_labels = PyNone -> Raise("ValueError")
    [] fit.predict_proba = PyNone ->
         Aligned(_prediction_to_probabilities(fit.pred_y, task.class_labels.xs),
                 fit.classes_, task.class_labels)
    [] OTHER -> Aligned(fit.predict_proba, fit.classes_, task.class_labels)

\* _extract_trace_data selecting the iteration after the best one.
_extract_trace_data_next(fit, rep_no, fold_no) ==
  [n \in 1..Len(fit.mean_test_score) |->
     [repeat |-> rep_no, fold |-> fold_no, iteration |-> n - 1,
      evaluation |-> fit.mean_test_score[n],
      selected |-> IF n = fit.best_index_ THEN "true" ELSE "false",
      parameters |-> << json_dumps(fit.param_p[n]) >>]]

\* _extract_trace_data: one line for every iteration of cv_results_.
_extract_trace_data(fit, rep_no, fold_no) ==
  [n \in 1..Len(fit.mean_test_score) |->
     [repeat |-> rep_no, fold |-> fold_no, iteration |-> n - 1,
      evaluation |-> fit.mean_test_score[n],
      selected |-> IF n - 1 = fit.best_index_ THEN "true" ELSE "false",
      parameters |-> << json_dumps(fit.param_p[n]) >>]]

\* _obtain_arff_trace: the trace of the attributes and the content.
_obtain_arff_trace(fit, trace_content) ==
  [t |-> "OpenMLRunTrace",
   attributes |-> << "repeat", "fold", "iteration", "evaluation", "selected", "parameter_p" >>,
   content |-> trace_content]

\* user_defined_measures in the order the entries are made.
Measures(cputime, wallclocktime) ==
  (IF cputime THEN << "usercpu_time_millis_training" >> ELSE << >>)
  \o (IF wallclocktime THEN << "wall_clock_time_millis_training" >> ELSE << >>)
  \o (IF cputime THEN << "usercpu_time_millis_testing", "usercpu_time_millis" >> ELSE << >>)
  \o (IF wallclocktime
      THEN << "wall_clock_time_millis_testing", "wall_clock_time_millis" >> ELSE << >>)

\* What _run_model_on_fold returns.
Returns(pred_y, proba_y, user_defined_measures, trace) ==
  IF IsErr(proba_y) THEN proba_y
  ELSE [t |-> "run", pred_y |-> pred_y, proba_y |-> proba_y,
        user_defined_measures |-> user_defined_measures, trace |-> trace]

\* _run_model_on_fold; fit is what fitting the clone and predicting with it
\* yields, y_train and X_test are whether the arguments are given.
_run_model_on_fold(m, task, rep_no, fold_no, y_train, X_test, fit) ==
  CASE IsSupervised(task) /\ ~(y_train /\ X_test) -> Ran(Raise("TypeError"), {})
    [] IsErr(_prevent_optimize_n_jobs(m)) -> Ran(_prevent_optimize_n_jobs(m), {})
    [] fit.raises -> Ran(Raise("PyOpenMLError"), {"model_copy"})
    [] OTHER ->
         Ran(Returns(fit.pred_y, Probabilities(task, fit),
                     Measures(_can_measure_cputime(m), _can_measure_wallclocktime(m)),
                     IF _is_hpo_class(m)
                     THEN _obtain_arff_trace(fit, _extract_trace_data(fit, rep_no, fold_no))
                     ELSE PyNone),
             {"model_copy"})

\* The n_jobs of an estimator, and the search spaces of a wrapper.
NJobs == {PyNone, PyInt(1), PyInt(2), PyInt(-1)}
Candidates == PyList(<< PyInt(1), PyInt(2) >>)
PlainGrid == PyDict(<< Item(PyStr("p"), Candidates) >>)
NJobsGrid == PyDict(<< Item(PyStr("n_jobs"), Candidates) >>)
StepGrid ==
  PyDict(<< Item(PyStr("p"), Candidates), Item(PyStr("clf__n_jobs"), Candidates) >>)
Grids ==
  {PlainGrid, NJobsGrid, StepGrid, PyList(<< PlainGrid >>), PyList(<< PlainGrid, NJobsGrid >>)}

RunModels ==
  {DT(PyNone)} \cup {RF(n) : n \in NJobs} \cup {Pipeline(RF(n)) : n \in NJobs}
  \cup {GridSearchCV(RF(PyNone), g, PyNone) : g \in Grids}
  \cup {GridSearchCV(RF(PyNone), PlainGrid, PyInt(2))}
  \cup {RandomizedSearchCV(RF(PyInt(1)), g, PyInt(-1)) : g \in {NJobsGrid, PyList(<< PlainGrid >>)}}
  \cup {GridSearchCV(Pipeline(RF(PyInt(2))), g, PyNone) : g \in {StepGrid}}
  \cup {Pipeline(GridSearchCV(RF(PyNone), g, PyNone)) : g \in {PlainGrid, NJobsGrid}}

ClassLabels == PyList([c \in 1..NumClasses |-> PyInt(c - 1)])
Tasks ==
  {Task(kind, ClassLabels) : kind \in {"classification", "learning_curve"}}
  \cup {Task(kind, PyNone) : kind \in {"classification", "regression", "clustering"}}

\* The elements of a set of numbers in ascending order.
Ascending(S) ==
  [p \in 1..Cardinality(S) |-> CHOOSE x \in S : Cardinality({y \in S : y < x}) = p - 1]

\* predict_proba of a fitted model: most of the weight on the prediction.
Weights(pred_y, classes_) ==
  Array([obs \in 1..Len(pred_y) |->
           [idx \in 1..Len(classes_) |-> IF classes_[idx] = pred_y[obs] THEN 2 ELSE 1]])

\* The results of a search: the scores of the iterations and the best one.
Searches(m) ==
  IF _is_hpo_class(m)
  THEN {x \in [mean_test_score : Seqs({70, 90}, MaxIter), best_index_ : 0..(MaxIter - 1)] :
          x.best_index_ < Len(x.mean_test_score)}
  ELSE {[mean_test_score |-> << >>, best_index_ |-> 0]}

\* What fitting the clone and predicting yields: an AttributeError of fit,
\* or the classes the fold had, the predictions, the probabilities where the
\* model has predict_proba, and the results of the search.
NoFit ==
  [raises |-> TRUE, classes_ |-> << >>, pred_y |-> << >>, predict_proba |-> PyNone,
   mean_test_score |-> << >>, best_index_ |-> 0, param_p |-> << >>]
Fit(S, pred_y, has_predict_proba, search) ==
  [raises |-> FALSE, classes_ |-> Ascending(S), pred_y |-> pred_y,
   predict_proba |-> IF has_predict_proba THEN Weights(pred_y, Ascending(S)) ELSE PyNone,
   mean_test_score |-> search.mean_test_score, best_index_ |-> search.best_index_,
   param_p |-> [n \in 1..Len(search.mean_test_score) |-> PyInt(n)]]
\* Every outcome of the predictions with one outcome of the search, and
\* every outcome of the search with one outcome of the predictions.
Fits(m, task) ==
  {NoFit}
  \cup {Fit(S, pred_y, has_predict_proba, CHOOSE x \in Searches(m) : x.best_index_ = 0) :
          S \in IF IsClassification(task) THEN (SUBSET (0..(NumClasses - 1))) \ {{}} ELSE {{0}},
          pred_y \in [1..NumTest -> 0..(NumClasses - 1)],
          has_predict_proba \in IF IsClassification(task) THEN BOOLEAN ELSE {FALSE}}
  \cup {Fit({0}, [obs \in 1..NumTest |-> 0], IsClassification(task), search) :
          search \in Searches(m)}

RunInit ==
  /\ model \in RunModels
  /\ flow = PyNone
  /\ op = "init"
  /\ given \in Tasks
  /\ result = PyNone
  /\ disk = << >>
  /\ server = << >>

\* result = extension._run_model_on_fold(model, task, X_train, rep_no,
\* fold_no, y_train, X_test)
RunModelOnFold ==
  /\ op = "init"
  /\ \E numbers \in {<< 0, 1 >>, << 1, 0 >>},
        arguments \in {<< TRUE, TRUE >>, << FALSE, TRUE >>, << TRUE, FALSE >>} :
       \E fit \in IF arguments = << TRUE, TRUE >>
                  THEN {x \in Fits(model, given) : \A i \in 1..Len(x.pred_y) :
                                                     \E j \in 1..Len(x.classes_) :
                                                       x.classes_[j] = x.pred_y[i]}
                  ELSE {NoFit} :
         /\ result' = _run_model_on_fold(model, given, numbers[1], numbers[2],
                                         arguments[1], arguments[2], fit).val
         /\ given' = [t |-> "_run_model_on_fold", task |-> given, rep_no |-> numbers[1],
                      fold_no |-> numbers[2], y_train |-> arguments[1],
                      X_test |-> arguments[2], fit |-> fit,
                      fitted |-> _run_model_on_fold(model, given, numbers[1], numbers[2],
                                                    arguments[1], arguments[2], fit).fitted]
  /\ op' = "_run_model_on_fold"
  /\ UNCHANGED << model, flow, disk, server >>

RunNext == RunModelOnFold

RunSpec == RunInit /\ [][RunNext]_vars

----------------------------------------------------------------------------
\* Properties of _run_model_on_fold

\* A dict, or a dict of a list of dicts, has a key whose last segment is
\* n_jobs.
DictHasNJobs(d) == \E i \in 1..Len(d.kv) : LastSegment(d.kv[i].k.v) = "n_jobs"
SpaceHasNJobs(space) ==
  IF space.t = "dict" THEN DictHasNJobs(space)
  ELSE \E i \in 1..Len(space.xs) : DictHasNJobs(space.xs[i])

\* The estimators of a model: the model, the estimators among its
\* parameters and steps, and theirs.
RECURSIVE Reachable(_)
Reachable(m) ==
  {m}
  \cup UNION {Reachable(m.args[k]) : k \in {a \in DOMAIN m.args : m.args[a].t = "est"}}
  \cup (IF m.cls = "sklearn.pipeline.Pipeline"
        THEN UNION {Reachable(m.args.steps.xs[i].xs[2]) : i \in 1..Len(m.args.steps.xs)}
        ELSE {})

ArgumentsGiven == ~IsSupervised(given.task) \/ (given.y_train /\ given.X_test)

\* C12, as stated: for a search wrapper whose search space has a key whose
\* last segment is n_jobs, the call raises PyOpenMLError before fit is
\* invoked on the clone or on the caller's model.
C12_RaisesBeforeFit ==
  (/\ op = "_run_model_on_fold"
   /\ _is_hpo_class(model)
   /\ SpaceHasNJobs(param_distributions(model)))
    => (result = Raise("PyOpenMLError") /\ given.fitted = {})

\* C12, amended: for such a search wrapper the call raises before fit is
\* invoked on the clone or on the caller's model: TypeError when the task is
\* supervised and y_train or X_test is missing, PyOpenMLError otherwise.
C12_RaisesBeforeFitWithArguments ==
  (/\ op = "_run_model_on_fold"
   /\ _is_hpo_class(model)
   /\ SpaceHasNJobs(param_distributions(model)))
    => /\ given.fitted = {}
       /\ result = IF ArgumentsGiven THEN Raise("PyOpenMLError") ELSE Raise("TypeError")

\* C12 happens: a wrapper whose search space is a list of dicts, one with
\* n_jobs, was refused although its fit would have succeeded.
C12_Witness ==
  /\ op = "_run_model_on_fold"
  /\ _is_hpo_class(model)
  /\ param_distributions(model).t = "list"
  /\ SpaceHasNJobs(param_distributions(model))
  /\ ~given.fit.raises
  /\ result = Raise("PyOpenMLError")
  /\ given.fitted = {}

\* C18: the call raises PyOpenMLError for every model in which a reachable
\* search wrapper, the model itself or one nested inside a pipeline or
\* another estimator, has a search space with an n_jobs parameter.
C18_RaisesForAnyWrapper ==
  (/\ op = "_run_model_on_fold"
   /\ ArgumentsGiven
   /\ \E w \in Reachable(model) :
        _is_hpo_class(w) /\ SpaceHasNJobs(param_distributions(w)))
    => result = Raise("PyOpenMLError")

\* The position of class c among the classes of the model, 0 if absent.
IndexOf(classes_, c) ==
  IF \E idx \in 1..Len(classes_) : classes_[idx] = c
  THEN CHOOSE idx \in 1..Len(classes_) : classes_[idx] = c
  ELSE 0

\* C13: for a classification or learning curve task with NumClasses labels
\* and a model fitted on the classes S, the returned probability matrix has
\* NumClasses columns; column c is the model's column for c when c is in S
\* and zero when it is not.
C13_ProbabilityColumns ==
  (/\ op = "_run_model_on_fold"
   /\ result.t = "run"
   /\ IsClassification(given.task))
    => \A obs \in 1..NumTest :
         /\ Len(result.proba_y.rows) = NumTest
         /\ Len(result.proba_y.rows[obs]) = NumClasses
         /\ \A c \in 0..(NumClasses - 1) :
              IF IndexOf(given.fit.classes_, c) = 0
              THEN result.proba_y.rows[obs][c + 1] = 0
              ELSE given.fit.predict_proba # PyNone
                     => result.proba_y.rows[obs][c + 1]
                          = given.fit.predict_proba.rows[obs][IndexOf(given.fit.classes_, c)]

\* C13 happens: the fold lacked a class below one it had, and the column of
\* the higher class moved to its place.
C13_Witness ==
  /\ op = "_run_model_on_fold"
  /\ result.t = "run"
  /\ IsClassification(given.task)
  /\ given.fit.predict_proba # PyNone
  /\ given.fit.classes_ = << 0, 2 >>
  /\ given.fit.pred_y[1] = 2
  /\ result.proba_y.rows[1] = << 1, 0, 2 >>

\* C14: the trace content of a fitted search wrapper has one row for every
\* iteration, in the order of the iterations, with the repeat and the fold
\* of the call; selected is 'true' in exactly one row, the row of
\* best_index_, and 'false' in every other.
C14_TraceRows ==
  (/\ op = "_run_model_on_fold"
   /\ result.t = "run"
   /\ _is_hpo_class(model))
    => /\ Len(result.trace.content) = Len(given.fit.mean_test_score)
       /\ \A n \in 1..Len(result.trace.content) :
            /\ result.trace.content[n].iteration = n - 1
            /\ result.trace.content[n].repeat = given.rep_no
            /\ result.trace.content[n].fold = given.fold_no
            /\ result.trace.content[n].evaluation = given.fit.mean_test_score[n]
            /\ result.trace.content[n].selected
                 = IF n - 1 = given.fit.best_index_ THEN "true" ELSE "false"
       /\ Cardinality({n \in 1..Len(result.trace.content) :
                         result.trace.content[n].selected = "true"}) = 1

\* C14 happens: of two iterations the second was the best.
C14_Witness ==
  /\ op = "_run_model_on_fold"
  /\ result.t = "run"
  /\ _is_hpo_class(model)
  /\ Len(result.trace.content) = 2
  /\ given.fit.best_index_ = 1
  /\ result.trace.content[1].selected = "false"
  /\ result.trace.content[2].selected = "true"

\* The n_jobs of the estimators of a model.
NJobsInTree(m) == {e.args["n_jobs"] : e \in {x \in Reachable(m) : "n_jobs" \in DOMAIN x.args}}

CpuMeasures ==
  {"usercpu_time_millis_training", "usercpu_time_millis_testing", "usercpu_time_millis"}
WallClockMeasures ==
  {"wall_clock_time_millis_training", "wall_clock_time_millis_testing",
   "wall_clock_time_millis"}
Recorded == {result.user_defined_measures[i] : i \in 1..Len(result.user_defined_measures)}

\* C15: the returned measures hold the CPU times if and only if every n_jobs
\* of the model's parameter tree is None or 1, and the wall clock times if
\* and only if none of them is -1; the measures that cannot be taken are
\* absent.
C15_Measures ==
  (op = "_run_model_on_fold" /\ result.t = "run")
    => /\ IF NJobsInTree(model) \subseteq {PyNone, PyInt(1)}
          THEN CpuMeasures \subseteq Recorded
          ELSE CpuMeasures \cap Recorded = {}
       /\ IF PyInt(-1) \notin NJobsInTree(model)
          THEN WallClockMeasures \subseteq Recorded
          ELSE WallClockMeasures \cap Recorded = {}

\* C15 happens: an estimator inside the model runs two jobs, the wall clock
\* times were recorded and the CPU times were not.
C15_Witness ==
  /\ op = "_run_model_on_fold"
  /\ result.t = "run"
  /\ "n_jobs" \notin DOMAIN model.args
  /\ PyInt(2) \in NJobsInTree(model)
  /\ Recorded = WallClockMeasures

----------------------------------------------------------------------------
\* publish that raises

\* C24: a publish that raises an error, the ValueError of a flow that was
\* not stored correctly included, leaves flow_id, uploader, version and
\* upload_date of the local flow and of all its components as they were
\* before the call.
C24_ErrorLeavesServerFields ==
  (op = "publish" /\ IsErr(result))
    => \A path \in AllPaths(flow) :
         ServerFields(Follow(flow, path)) = ServerFields(Follow(given.flow_before, path))


\* get_structure and get_subflow together
\* C30: for every entry k -> path of flow.get_structure('name') with a
\* path that is not empty, flow.get_subflow(path) returns a flow whose name
\* is k, and the only entry with an empty path is the one of the root.
C30_PathLeadsToName ==
  (op = "get_structure" /\ given.key_item = "name")
    => /\ result.t = "dict"
       /\ \A i \in 1..Len(result.kv) :
            IF result.kv[i].val.xs = << >>
            THEN result.kv[i].k = KeyOf(flow, "name")
            ELSE /\ get_subflow(flow, result.kv[i].val.xs).val.t = "flow"
                 /\ KeyOf(get_subflow(flow, result.kv[i].val.xs).val, "name") = result.kv[i].k
       /\ Cardinality({i \in 1..Len(result.kv) : result.kv[i].val.xs = << >>}) = 1

\* C30 happens: the structure has an entry whose path is two identifiers long.
C30_Witness ==
  /\ op = "get_structure"
  /\ given.key_item = "name"
  /\ result.t = "dict"
  /\ \E i \in 1..Len(result.kv) : Len(result.kv[i].val.xs) = 2


\* the width of the probability matrix
\* C29, as stated: a call that returns for a classification or learning
\* curve task gives a probability matrix with len(task.class_labels)
\* columns, and a call for such a task without class labels raises
\* ValueError.
C29_LabelsWide ==
  (op = "_run_model_on_fold" /\ IsClassification(given.task))
    => IF given.task.class_labels = PyNone
       THEN result = Raise("ValueError")
       ELSE result.t = "run"
              => \A obs \in 1..Len(result.proba_y.rows) :
                   Len(result.proba_y.rows[obs]) = Len(given.task.class_labels.xs)

\* C29, amended: a call that returns for a classification or learning curve
\* task gives a probability matrix with len(task.class_labels) columns; a
\* call for such a task without class labels never returns, and the error
\* is ValueError when y_train and X_test are given, the check of the search
\* space passes and fit does not raise.
C29_LabelsWideOrError ==
  (op = "_run_model_on_fold" /\ IsClassification(given.task))
    => IF given.task.class_labels = PyNone
       THEN /\ IsErr(result)
            /\ (/\ given.y_train /\ given.X_test
                /\ ~IsErr(_prevent_optimize_n_jobs(model))
                /\ ~given.fit.raises) <=> (result = Raise("ValueError"))
       ELSE result.t = "run"
              => /\ Len(result.proba_y.rows) = Len(given.fit.pred_y)
                 /\ \A obs \in 1..Len(result.proba_y.rows) :
                      Len(result.proba_y.rows[obs]) = Len(given.task.class_labels.xs)

\* C29 happens: a model without predict_proba that was fitted on one class
\* gave a matrix as wide as the class labels of the task.
C29_Witness ==
  /\ op = "_run_model_on_fold"
  /\ result.t = "run"
  /\ IsClassification(given.task)
  /\ given.fit.predict_proba = PyNone
  /\ Len(given.fit.classes_) = 1
  /\ Len(result.proba_y.rows[1]) = Len(given.task.class_labels.xs)


\* Strings that are JSON text
\* A string whose characters spell a JSON document, as '1' and 'null' do.
IsJsonText(a) == a.t = "str" /\ ~IsErr(json_loads(a))

\* Wherever a holds a string that is JSON text, as an argument, as an
\* element or a key of a container or as a step name, b holds that string.
RECURSIVE JsonTextKept(_, _)
JsonTextKept(a, b) ==
  CASE IsJsonText(a) -> b = a
    [] IsSeqVal(a) /\ Len(a.xs) > 0 ->
         /\ IsSeqVal(b)
         /\ Len(b.xs) = Len(a.xs)
         /\ \A i \in 1..Len(a.xs) : JsonTextKept(a.xs[i], b.xs[i])
    [] IsMapping(a) /\ Len(a.kv) > 0 ->
         /\ IsMapping(b)
         /\ \A i \in 1..Len(a.kv) :
              /\ IsJsonText(a.kv[i].k) => HasKey(b.kv, a.kv[i].k)
              /\ HasKey(b.kv, a.kv[i].k) => JsonTextKept(a.kv[i].val, Get(b.kv, a.kv[i].k))
    [] a.t = "est" ->
         /\ b.t = "est"
         /\ DOMAIN b.args = DOMAIN a.args
         /\ \A n \in DOMAIN a.args : JsonTextKept(a.args[n], b.args[n])
    [] OTHER -> TRUE

\* C25: a string that is itself JSON text ('1', 'true', 'null') comes back
\* from flow_to_model(model_to_flow(m)) as the same string, as a constructor
\* argument, as an element of a list, tuple or dict argument and as the
\* step name of a sub-component.
C25_JsonTextKept ==
  (op = "flow_to_model" /\ model # PyNone /\ ~given.initialize_with_defaults)
    => JsonTextKept(model, result)


\* Defaults below the root
\* An estimator was built with the defaults of its class: every parameter
\* that has a default holds it, unless it holds a component.
BuiltWithDefaults(e) ==
  \A i \in 1..Len(_get_fn_arguments_with_defaults(e.cls)) :
    \/ e.args[_get_fn_arguments_with_defaults(e.cls)[i].k].t = "est"
    \/ e.args[_get_fn_arguments_with_defaults(e.cls)[i].k]
         = _get_fn_arguments_with_defaults(e.cls)[i].val

\* C26: with initialize_with_defaults=True the defaults are used for the
\* root and for every nested component at every depth, whether the
\* component is reached through a component reference in a parameter value
\* or through the pass over the components no parameter refers to.
C26_DefaultsAtEveryDepth ==
  (op = "flow_to_model" /\ given.initialize_with_defaults /\ result.t = "est")
    => \A i \in 1..Len(NestedEstimators(result)) :
         BuiltWithDefaults(NestedEstimators(result)[i])


-----------------------------------------------------------------------------
\* Seeding a model

MaxSeed == 1
\* The bound of rs.randint(0, 2 ** 16).
high == 65536

SGD(random_state) ==
  Estimator("sklearn.linear_model.SGD", [n \in {"random_state"} |-> random_state])
Bagging(base_estimator, random_state) ==
  Estimator("sklearn.ensemble.Bagging",
            [base_estimator |-> base_estimator, random_state |-> random_state])
RFECV(estimator, cv) ==
  Estimator("sklearn.feature_selection.RFECV", [cv |-> cv, estimator |-> estimator])

\* A np.random.RandomState object, and the cross-validators: KFold has a
\* random_state, LeaveOneOut has none.
RandomState == [t |-> "RandomState"]
NoAttribute == [t |-> "absent"]
KFold(random_state) == [t |-> "cv", cls |-> "KFold", random_state |-> random_state]
LeaveOneOut == [t |-> "cv", cls |-> "LeaveOneOut", random_state |-> NoAttribute]

\* The parameter names of the models in Python's (code point) order.
ParamOrder ==
  << "base_estimator", "base_estimator__cv", "base_estimator__estimator",
     "base_estimator__estimator__random_state", "base_estimator__random_state", "cv",
     "estimator", "estimator__base_estimator", "estimator__base_estimator__random_state",
     "estimator__random_state", "random_state" >>

\* sorted(model_params): the names of the parameters in sorted order.
sorted(model_params) ==
  SelectSeq(ParamOrder, LAMBDA name : HasKey(model_params, PyStr(name)))

\* 'random_state' in param_name
Contains_random_state(param_name) ==
  param_name \in {"random_state", "base_estimator__random_state", "estimator__random_state",
                  "base_estimator__estimator__random_state",
                  "estimator__base_estimator__random_state"}

\* The n-th number (from 0) that RandomState(state).randint(0, 2 ** 16)
\* gives: a number below 2 ** 16 that the state and n determine.
randint(state, n) == ((state + 1) * 40503 + n * 25173 + 13849) % high

\* _seed_current_object that lets an integer be seeded again.
_seed_current_object_again(current_value) ==
  CASE current_value.t \in {"int", "bool"} -> PyBool(TRUE)
    [] current_value.t = "RandomState" -> Raise("ValueError")
    [] current_value # PyNone -> Raise("ValueError")
    [] OTHER -> PyBool(TRUE)

_seed_current_object(current_value) ==
  CASE current_value.t \in {"int", "bool"} -> PyBool(FALSE)
    [] current_value.t = "RandomState" -> Raise("ValueError")
    [] current_value # PyNone -> Raise("ValueError")
    [] OTHER -> PyBool(TRUE)

\* The number of draws made when the number is drawn inside the if
\* statement, for an unseeded object only.
DrawsAfter_if_unseeded(draws, current_value) ==
  IF current_value = PyNone THEN draws + 1 ELSE draws

\* new_value = rs.randint(0, 2 ** 16) is drawn before the current value is
\* looked at: every random_state takes one number of the generator.
DrawsAfter(draws, current_value) == draws + 1

\* What the loop of seed_model has done so far: the numbers drawn, the
\* dictionary random_states, the random_state set on cross-validators, and
\* whether _seed_current_object raised.
Seeding(draws, random_states, cv_states, raised) ==
  [draws |-> draws, random_states |-> random_states, cv_states |-> cv_states,
   raised |-> raised]

\* One random_state met by the loop: the number is drawn, and kept when
\* _seed_current_object says so.
Met(so_far, state, param_name, current_value, is_cv) ==
  CASE IsErr(_seed_current_object(current_value)) ->
         Seeding(DrawsAfter(so_far.draws, current_value), so_far.random_states,
                 so_far.cv_states, TRUE)
    [] ~_seed_current_object(current_value).b ->
         Seeding(DrawsAfter(so_far.draws, current_value), so_far.random_states,
                 so_far.cv_states, FALSE)
    [] is_cv ->
         Seeding(DrawsAfter(so_far.draws, current_value), so_far.random_states,
                 Put(so_far.cv_states, PyStr(param_name), PyInt(randint(state, so_far.draws))),
                 FALSE)
    [] OTHER ->
         Seeding(DrawsAfter(so_far.draws, current_value),
                 Put(so_far.random_states, PyStr(param_name),
                     PyInt(randint(state, so_far.draws))),
                 so_far.cv_states, FALSE)


\* The loop of seed_model over sorted(model_params); it ends where
\* _seed_current_object raises.
RECURSIVE SeedLoop(_, _, _, _, _)
SeedLoop(names, i, model_params, state, so_far) ==
  CASE so_far.raised \/ i > Len(names) -> so_far
    [] Contains_random_state(names[i]) ->
         SeedLoop(names, i + 1, model_params, state,
                  Met(so_far, state, names[i], Get(model_params, PyStr(names[i])), FALSE))
    [] /\ Get(model_params, PyStr(names[i])).t = "cv"
       /\ Get(model_params, PyStr(names[i])).random_state # NoAttribute ->
         SeedLoop(names, i + 1, model_params, state,
                  Met(so_far, state, names[i],
                      Get(model_params, PyStr(names[i])).random_state, TRUE))
    [] OTHER -> SeedLoop(names, i + 1, model_params, state, so_far)

\* The entries of params for the parameters of the estimator held by the
\* parameter name, under the names the estimator knows them by.
SubParams(params, name, deep) ==
  LET hits == SelectSeq(deep, LAMBDA it : HasKey(params, PyStr(name \o "__" \o it.k.v)))
  IN [i \in 1..Len(hits) |->
        Item(hits[i].k, Get(params, PyStr(name \o "__" \o hits[i].k.v)))]

\* model.set_params(**params): a parameter of the model is set, and a
\* parameter name__x is handed to the estimator the parameter name holds.
RECURSIVE set_params(_, _)
set_params(m, params) ==
  Estimator(m.cls,
            [k \in DOMAIN m.args |->
               CASE HasKey(params, PyStr(k)) -> Get(params, PyStr(k))
                 [] m.args[k].t = "est" ->
                      set_params(m.args[k], SubParams(params, k, get_params(m.args[k])))
                 [] OTHER -> m.args[k]])

\* model_params[param_name].random_state = new_value: the cross-validators
\* are the objects the model holds, so the model has them seeded.
RECURSIVE WithSeededCv(_, _)
WithSeededCv(m, cv_states) ==
  Estimator(m.cls,
            [k \in DOMAIN m.args |->
               CASE HasKey(cv_states, PyStr(k)) ->
                      [m.args[k] EXCEPT !.random_state = Get(cv_states, PyStr(k))]
                 [] m.args[k].t = "est" ->
                      WithSeededCv(m.args[k], SubParams(cv_states, k, get_params(m.args[k])))
                 [] OTHER -> m.args[k]])

\* What a call leaves: its value or exception, and the model of the caller.
Seeded(val, m) == [t |-> "seeded", val |-> val, model |-> m]

\* The end of seed_model: set_params and return model, unless the loop
\* raised.
AfterLoop(m, done) ==
  IF done.raised THEN Seeded(Raise("ValueError"), WithSeededCv(m, done.cv_states))
  ELSE Seeded(set_params(WithSeededCv(m, done.cv_states), done.random_states),
              set_params(WithSeededCv(m, done.cv_states), done.random_states))

\* seed_model(model, seed), where state is the state RandomState(seed)
\* starts in.
seed_model(m, state) ==
  AfterLoop(m, SeedLoop(sorted(get_params(m)), 1, get_params(m), state,
                        Seeding(0, << >>, << >>, FALSE)))

RandomStateValues == {PyNone, PyInt(7), RandomState}
CrossValidators == {KFold(v) : v \in RandomStateValues} \cup {LeaveOneOut}
SeedModels ==
  {SGD(v) : v \in RandomStateValues}
  \cup {Bagging(SGD(v), w) : v, w \in RandomStateValues}
  \cup {RFECV(SGD(v), cv) : v \in RandomStateValues, cv \in CrossValidators}
  \cup {RFECV(Bagging(SGD(v), w), cv) :
          v, w \in RandomStateValues, cv \in CrossValidators}
  \cup {Bagging(RFECV(SGD(v), cv), w) :
          v, w \in RandomStateValues, cv \in CrossValidators}

SeedInit ==
  /\ model \in SeedModels
  /\ flow = PyNone
  /\ op = "init"
  /\ given = PyNone
  /\ result = PyNone
  /\ disk = << >>
  /\ server = << >>

\* result = extension.seed_model(model, seed); with seed None the generator
\* starts in a state taken from the operating system.
SeedModel ==
  /\ op = "init"
  /\ \E seed \in {PyNone} \cup {PyInt(n) : n \in 0..MaxSeed}, entropy \in 0..MaxSeed :
       /\ seed # PyNone => entropy = 0
       /\ result' = seed_model(model, IF seed = PyNone THEN entropy ELSE seed.i).val
       /\ model' = seed_model(model, IF seed = PyNone THEN entropy ELSE seed.i).model
       /\ given' = [t |-> "seed_model", seed |-> seed,
                    state |-> IF seed = PyNone THEN entropy ELSE seed.i,
                    model_before |-> model]
  /\ op' = "seed_model"
  /\ UNCHANGED << flow, disk, server >>

SeedNext == SeedModel

SeedSpec == SeedInit /\ [][SeedNext]_vars

\* The random_state of every parameter that has one, and of every
\* cross-validator that has one, in the sorted order of the names.
RandomStatesOf(model_params) ==
  LET names == SelectSeq(sorted(model_params),
                         LAMBDA name :
                           \/ Contains_random_state(name)
                           \/ /\ Get(model_params, PyStr(name)).t = "cv"
                              /\ Get(model_params, PyStr(name)).random_state # NoAttribute)
  IN [i \in 1..Len(names) |->
        IF Contains_random_state(names[i]) THEN Get(model_params, PyStr(names[i]))
        ELSE Get(model_params, PyStr(names[i])).random_state]
RandomStates(m) == RandomStatesOf(get_params(m))

\* C22: after seed_model(model, seed) returns, every random_state of a
\* parameter or of a cross-validator that held an integer holds the same
\* integer, and every one that held None holds an integer in 0..2^16-1; a
\* random_state that holds a RandomState object makes the call raise
\* ValueError.
C22_Seeded ==
  op = "seed_model"
    => IF \E i \in 1..Len(RandomStates(given.model_before)) :
            RandomStates(given.model_before)[i] = RandomState
       THEN result = Raise("ValueError")
       ELSE /\ result.t = "est"
            /\ result = model
            /\ Len(RandomStates(result)) = Len(RandomStates(given.model_before))
            /\ \A i \in 1..Len(RandomStates(given.model_before)) :
                 IF RandomStates(given.model_before)[i].t = "int"
                 THEN RandomStates(result)[i] = RandomStates(given.model_before)[i]
                 ELSE /\ RandomStates(result)[i].t = "int"
                      /\ RandomStates(result)[i].i \in 0..(high - 1)

\* C22 happens: a model with a seeded and an unseeded random_state and an
\* unseeded cross-validator was seeded.
C22_Witness ==
  /\ op = "seed_model"
  /\ result.t = "est"
  /\ given.model_before = RFECV(Bagging(SGD(PyInt(7)), PyNone), KFold(PyNone))
  /\ result.args.cv.random_state.t = "int"
  /\ result.args.estimator.args.random_state.t = "int"
  /\ result.args.estimator.args.base_estimator.args.random_state = PyInt(7)

\* C23: for a fixed seed and fixed parameter names, the value given to an
\* unseeded random_state is the number the generator gives at the position
\* of its name among the random_state names in sorted order, whichever of
\* the other random_states were seeded already: one number is drawn for
\* every random_state, used or not.
C23_DrawPerName ==
  (op = "seed_model" /\ result.t = "est")
    => \A i \in 1..Len(RandomStates(given.model_before)) :
         RandomStates(given.model_before)[i] = PyNone
           => RandomStates(result)[i] = PyInt(randint(given.state, i - 1))

\* C23 happens: the random_state before the unseeded one was seeded, and
\* the unseeded one got the second number of the generator.
C23_Witness ==
  /\ op = "seed_model"
  /\ result.t = "est"
  /\ given.model_before = Bagging(SGD(PyInt(7)), PyNone)
  /\ result.args.random_state = PyInt(randint(given.state, 1))

\* C27: when seed_model raises ValueError, no random_state of the model or
\* of a cross-validator the model holds has been changed by the call.
C27_ErrorLeavesModel ==
  (op = "seed_model" /\ result = Raise("ValueError")) => model = given.model_before


-----------------------------------------------------------------------------
\* The split of a task

MaxCalls == 3

\* The datasplits.arff of the cache directory of the task: no file, a file
\* that cannot be opened, or a file with a text.
NoSplitFile == [t |-> "absent"]
LockedFile == [t |-> "locked"]
SplitFile(text) == [t |-> "file", text |-> text]
CanOpen(file) == file.t = "file"

\* An OpenMLSplit, and the task object with its split.
OpenMLSplit(repeats, folds, samples) ==
  [t |-> "OpenMLSplit", repeats |-> repeats, folds |-> folds, samples |-> samples]
OpenMLTask(split) == [t |-> "OpenMLTask", task_id |-> 1, split |-> split]

\* openml._api_calls._read_url(split_url, request_method='get')
_read_url(remote) ==
  IF remote.up THEN PyStr(remote.split_arff) ELSE Raise("OpenMLServerException")

\* OpenMLSplit._from_arff_file(cached_split_file)
_from_arff_file(file) ==
  IF CanOpen(file) THEN OpenMLSplit(1, 2, 1) ELSE Raise("OSError")

\* self.split.get(repeat=repeat, fold=fold, sample=sample)
split_get(split, repeat, fold, sample) ==
  IF repeat < split.repeats /\ fold < split.folds /\ sample < split.samples
  THEN PyTuple(<< PyStr("train"), PyStr("test"), PyInt(fold) >>)
  ELSE Raise("ValueError")

\* What a step leaves: its value or exception, the cache file, and whether
\* the split file was asked of the remote URL.
Stepped(val, file, fetched) == [t |-> "stepped", val |-> val, file |-> file, fetched |-> fetched]

\* _download_split(cache_file): nothing when the file can be opened, else
\* the text of the URL is written to it.
_download_split(file, remote) ==
  CASE CanOpen(file) -> Stepped(PyNone, file, FALSE)
    [] IsErr(_read_url(remote)) -> Stepped(_read_url(remote), file, TRUE)
    [] file = LockedFile -> Stepped(Raise("OSError"), file, TRUE)
    [] OTHER -> Stepped(PyNone, SplitFile(_read_url(remote).v), TRUE)

\* The split read again after _download_split.
ReadAgain(downloaded) ==
  IF IsErr(downloaded.val) THEN downloaded
  ELSE Stepped(_from_arff_file(downloaded.file), downloaded.file, downloaded.fetched)

\* download_split(): the split of the cached file, and of the downloaded
\* file when the cached file raises OSError.
download_split(file, remote) ==
  IF IsErr(_from_arff_file(file)) THEN ReadAgain(_download_split(file, remote))
  ELSE Stepped(_from_arff_file(file), file, FALSE)

\* What a call leaves: its value or exception, the task, the cache file,
\* whether the split file was asked of the remote URL and whether
\* download_split was called.
Called(val, task, file, fetched, loaded) ==
  [t |-> "called", val |-> val, task |-> task, file |-> file, fetched |-> fetched,
   loaded |-> loaded]

\* self.split = self.download_split() without the test of self.split.
WithSplit_always(task, file, remote) ==
  IF IsErr(download_split(file, remote).val)
  THEN Called(download_split(file, remote).val, task, download_split(file, remote).file,
              download_split(file, remote).fetched, TRUE)
  ELSE Called(PyNone, [task EXCEPT !.split = download_split(file, remote).val],
              download_split(file, remote).file, download_split(file, remote).fetched, TRUE)

\* if self.split is None: self.split = self.download_split()
WithSplit(task, file, remote) ==
  CASE task.split # PyNone -> Called(PyNone, task, file, FALSE, FALSE)
    [] IsErr(download_split(file, remote).val) ->
         Called(download_split(file, remote).val, task, download_split(file, remote).file,
                download_split(file, remote).fetched, TRUE)
    [] OTHER ->
         Called(PyNone, [task EXCEPT !.split = download_split(file, remote).val],
                download_split(file, remote).file, download_split(file, remote).fetched, TRUE)

\* The value of a call once the task has its split.
Then(with_split, val) == IF IsErr(with_split.val) THEN with_split ELSE [with_split EXCEPT !.val = val]

get_train_test_split_indices(task, file, remote, fold, repeat, sample) ==
  Then(WithSplit(task, file, remote),
       IF IsErr(WithSplit(task, file, remote).val) THEN PyNone
       ELSE split_get(WithSplit(task, file, remote).task.split, repeat, fold, sample))

get_split_dimensions(task, file, remote) ==
  Then(WithSplit(task, file, remote),
       IF IsErr(WithSplit(task, file, remote).val) THEN PyNone
       ELSE PyTuple(<< PyInt(WithSplit(task, file, remote).task.split.repeats),
                       PyInt(WithSplit(task, file, remote).task.split.folds),
                       PyInt(WithSplit(task, file, remote).task.split.samples) >>))

\* The record of a call: the task and the cache file before it, what it
\* did, and with it the calls made so far, the times download_split gave
\* the task a split and the times the split file was asked of the remote
\* URL.
Record(name, task, file, called, history) ==
  [t |-> name, split_before |-> task.split, file_before |-> file,
   fetched |-> called.fetched, loaded |-> called.loaded,
   calls |-> history.calls + 1,
   loads |-> history.loads + (IF called.task.split # task.split THEN 1 ELSE 0),
   fetches |-> history.fetches + (IF called.fetched THEN 1 ELSE 0)]

TaskInit ==
  /\ model = OpenMLTask(PyNone)
  /\ flow = PyNone
  /\ op = "init"
  /\ given = [t |-> "init", split_before |-> PyNone, file_before |-> NoSplitFile,
              fetched |-> FALSE, loaded |-> FALSE, calls |-> 0, loads |-> 0, fetches |-> 0]
  /\ result = PyNone
  /\ disk \in {NoSplitFile, LockedFile, SplitFile("arff")}
  /\ server \in [up : BOOLEAN, split_arff : {"arff"}]

\* result = task.get_train_test_split_indices(fold, repeat, sample)
GetTrainTestSplitIndices ==
  /\ given.calls < MaxCalls
  /\ \E fold \in 0..2, repeat \in 0..1 :
       /\ result' = get_train_test_split_indices(model, disk, server, fold, repeat, 0).val
       /\ model' = get_train_test_split_indices(model, disk, server, fold, repeat, 0).task
       /\ disk' = get_train_test_split_indices(model, disk, server, fold, repeat, 0).file
       /\ given' = Record("get_train_test_split_indices", model, disk,
                          get_train_test_split_indices(model, disk, server, fold, repeat, 0),
                          given)
  /\ op' = "get_train_test_split_indices"
  /\ UNCHANGED << flow, server >>

\* result = task.get_split_dimensions()
GetSplitDimensions ==
  /\ given.calls < MaxCalls
  /\ result' = get_split_dimensions(model, disk, server).val
  /\ model' = get_split_dimensions(model, disk, server).task
  /\ disk' = get_split_dimensions(model, disk, server).file
  /\ given' = Record("get_split_dimensions", model, disk,
                     get_split_dimensions(model, disk, server), given)
  /\ op' = "get_split_dimensions"
  /\ UNCHANGED << flow, server >>

\* Between two calls the cache directory is cleared, or the remote server
\* comes up or goes down.
Surroundings ==
  /\ op # "surroundings"
  /\ given.calls < MaxCalls
  /\ \E file \in {disk, NoSplitFile}, up \in BOOLEAN :
       /\ << file, up >> # << disk, server.up >>
       /\ disk' = file
       /\ server' = [server EXCEPT !.up = up]
  /\ op' = "surroundings"
  /\ UNCHANGED << model, flow, given, result >>

TaskNext == GetTrainTestSplitIndices \/ GetSplitDimensions \/ Surroundings

TaskSpec == TaskInit /\ [][TaskNext]_vars

\* C28: over any sequence of get_train_test_split_indices and
\* get_split_dimensions calls on one task, download_split gives the task a
\* split at most once, and only while task.split is None; the split file is
\* asked of the remote URL only when the cached datasplits file cannot be
\* opened; and once task.split is set, no later call downloads or loads it
\* again, and the split stays the one it was.
C28_LoadedOnce ==
  op \in {"get_train_test_split_indices", "get_split_dimensions"}
    => /\ given.loads <= 1
       /\ given.loaded => given.split_before = PyNone
       /\ given.fetched => (given.loaded /\ ~CanOpen(given.file_before))
       /\ given.split_before # PyNone
            => /\ ~given.loaded
               /\ ~given.fetched
               /\ model.split = given.split_before
               /\ disk = given.file_before
       /\ (given.loads = 1) <=> (model.split # PyNone)

\* C28 happens: the task had its split, the cache directory was cleared,
\* and a later call neither loaded nor downloaded anything.
C28_Witness ==
  /\ op = "get_split_dimensions"
  /\ given.calls = 3
  /\ given.fetches = 1
  /\ given.loads = 1
  /\ given.split_before # PyNone
  /\ given.file_before = NoSplitFile
  /\ result.t = "tuple"


\* The working copy of the components
\* The keys of the components that the first loop resolved through a
\* component reference.
Resolved(f, decoded) ==
  IF IsErr(decoded) THEN {} ELSE Keys(f.components) \ Keys(decoded.components.kv)

\* C21: flow_to_model leaves flow.components of the flow it is given and of
\* every nested flow as they were, the referenced components being deleted
\* from a working copy only; and a component resolved through a reference
\* is not decoded again by the pass over the remaining components, so the
\* constructor gets no keyword for it.
C21_ComponentsKept ==
  op = "flow_to_model"
    => /\ flow = given.flow_before
       /\ given.keywords.t = "kwargs"
            => \A key \in Resolved(flow, DecodedParameters(flow, given.initialize_with_defaults)) :
                 HasKey(given.keywords.kv, key) => HasKey(flow.parameters, key)

\* C21 happens: a flow with a nested flow had two components resolved
\* through references, and the model was built.
C21_Witness ==
  /\ op = "flow_to_model"
  /\ result.t = "est"
  /\ Cardinality(Resolved(flow, DecodedParameters(flow, given.initialize_with_defaults))) = 2
  /\ \E i \in 1..Len(flow.components) : Len(flow.components[i].val.components) > 0

====
